---- MODULE Spec2Model ----
(***************************************************************************)
(* Registration form and admin dashboard of smart-connect-hub.             *)
(*                                                                         *)
(* Strings are sequences of one-character strings, so that trimming,       *)
(* length limits and the digit pattern are computed as the code computes   *)
(* them.  An optional value (File | null, string | null) is a sequence of  *)
(* length 0 or 1.                                                          *)
(***************************************************************************)
EXTENDS Integers, Sequences, FiniteSets, TLC

\* ------------------------------------------------------------------ bounds
\* Number of submit events of the public form that a behaviour contains.
MaxSubmits == 2
\* Number of distinct "<Date.now()>-<random>" stamps uploadPhoto can draw.
NameStamps == 2
\* Longest run of whitespace put before and after a probed field value.
MaxPad == 1
\* How far below and above a length limit the probed field values go.
LenSlack == 2
\* How far below and above MAX_FILE_SIZE the probed file sizes go (bytes).
SizeSlack == 2
\* Number of handleDelete calls of the dashboard that a behaviour contains.
MaxDeletes == 2
\* Largest record set listed by the table on its own (three pages).
MaxRecords == 25
\* Last tick of the store's clock at which a client statement is still sent.
MaxClock == 4
\* Number of submit events of the edit modal that a behaviour contains.
MaxSaves == 2
\* Ticks of the clock that make one calendar day.
TicksPerDay == 2

\* ------------------------------------------------- constants of the program
\* src/src/lib/validations.ts:57
MAX_FILE_SIZE == 2 * 1024 * 1024
\* src/src/lib/validations.ts:58
ACCEPTED_IMAGE_TYPES == {"image/jpeg", "image/jpg", "image/png"}
\* src/src/lib/validations.ts:44-55
DEPARTMENTS ==
  {"Engineering", "Marketing", "Sales", "Human Resources", "Finance",
   "Operations", "Customer Support", "Research & Development", "Legal", "Other"}
\* src/src/lib/validations.ts:18
GENDERS == {"male", "female", "other"}
\* src/src/lib/validations.ts:7-8
FullNameMin == 2
FullNameMax == 100
\* src/src/lib/validations.ts:12
MobileDigits == 10
\* src/src/lib/validations.ts:17
EmailMax == 255
\* src/src/lib/validations.ts:25-26
AddressMin == 10
AddressMax == 500
\* src/src/components/admin/RegistrationsTable.tsx:54
ITEMS_PER_PAGE == 10

\* ------------------------------------------------------------- characters
Digit == {"0", "1", "2", "3", "4", "5", "6", "7", "8", "9"}
Letter ==
  {"a", "b", "c", "d", "e", "f", "g", "h", "i", "j", "k", "l", "m", "n", "o",
   "p", "q", "r", "s", "t", "u", "v", "w", "x", "y", "z",
   "A", "B", "C", "D", "E", "F", "G", "H", "I", "J", "K", "L", "M", "N", "O",
   "P", "Q", "R", "S", "T", "U", "V", "W", "X", "Y", "Z"}
\* The characters String.prototype.trim removes (those the model uses).
Whitespace == {" ", "\t", "\n"}

\* A field the user never touched: react-hook-form holds undefined for it.
Undefined == "undefined"

None == <<>>
Some(x) == <<x>>

Rep(c, n) == [i \in 1..n |-> c]

\* ------------------------------------------------------------- validations
\* String.prototype.trim, as zod's .trim() applies it before the later checks.
RECURSIVE TrimStart(_)
TrimStart(s) ==
  IF s = <<>> THEN s
  ELSE IF Head(s) \in Whitespace THEN TrimStart(Tail(s)) ELSE s

RECURSIVE TrimEnd(_)
TrimEnd(s) ==
  IF s = <<>> THEN s
  ELSE IF s[Len(s)] \in Whitespace THEN TrimEnd(SubSeq(s, 1, Len(s) - 1)) ELSE s

Trim(s) == TrimEnd(TrimStart(s))

\* The full-name rule with the .trim() left out.
FullNameNoTrim(s) == Len(s) >= FullNameMin /\ Len(s) <= FullNameMax
\* z.string().trim().min(2).max(100)
FullNameOk(s) ==
  LET t == Trim(s) IN Len(t) >= FullNameMin /\ Len(t) <= FullNameMax

\* The mobile rule with the pattern written /\d{10}/, without its anchors.
MobileUnanchored(s) ==
  LET t == Trim(s) IN
  \E lo \in 1..Len(t) :
    lo + MobileDigits - 1 <= Len(t)
    /\ \A i \in lo..(lo + MobileDigits - 1) : t[i] \in Digit
\* z.string().trim().regex(/^\d{10}$/)
MobileOk(s) ==
  LET t == Trim(s) IN
  Len(t) = MobileDigits /\ \A i \in 1..Len(t) : t[i] \in Digit

\* z.string().trim().email().max(255): the shape zod's e-mail pattern asks for
\* (one "@", a non-empty local part, dot-separated non-empty domain labels and
\* a top-level label of at least two letters, no whitespace).
EmailOk(s) ==
  LET t == Trim(s)
      ats == {i \in 1..Len(t) : t[i] = "@"}
  IN  /\ Len(t) <= EmailMax
      /\ Cardinality(ats) = 1
      /\ \A i \in 1..Len(t) : t[i] \notin Whitespace
      /\ LET a == CHOOSE i \in ats : TRUE
             dots == {i \in (a + 1)..Len(t) : t[i] = "."}
         IN  /\ a > 1
             /\ t[1] # "." /\ t[a - 1] # "."
             /\ \A i \in 1..(Len(t) - 1) : ~(t[i] = "." /\ t[i + 1] = ".")
             /\ dots # {}
             /\ a + 1 \notin dots
             /\ LET ld == CHOOSE i \in dots : \A j \in dots : j <= i
                IN  /\ Len(t) - ld >= 2
                    /\ \A i \in (ld + 1)..Len(t) : t[i] \in Letter

\* z.enum(["male", "female", "other"])
GenderOk(g) == g \in GENDERS

\* z.string().min(1): a string of length at least 1; undefined is no string.
DepartmentOk(d) == d # Undefined /\ d # ""

\* The address rule with the lower limit taken exclusive.
AddressMinExclusive(s) ==
  LET t == Trim(s) IN Len(t) > AddressMin /\ Len(t) <= AddressMax
\* z.string().trim().min(10).max(500)
AddressOk(s) ==
  LET t == Trim(s) IN Len(t) >= AddressMin /\ Len(t) <= AddressMax

Fields == {"fullName", "mobileNumber", "email", "gender", "department", "address"}

\* The field-keyed errors of registrationSchema: every field is evaluated.
SchemaErrors(v) ==
  {f \in Fields :
     \/ f = "fullName" /\ ~FullNameOk(v.fullName)
     \/ f = "mobileNumber" /\ ~MobileOk(v.mobileNumber)
     \/ f = "email" /\ ~EmailOk(v.email)
     \/ f = "gender" /\ ~GenderOk(v.gender)
     \/ f = "department" /\ ~DepartmentOk(v.department)
     \/ f = "address" /\ ~AddressOk(v.address)}

\* The output of a schema without the .trim() steps: the values as typed.
SchemaDataUntrimmed(v) == v
\* The parsed output of registrationSchema, handed to onSubmit as `data`.
SchemaData(v) ==
  [fullName |-> Trim(v.fullName),
   mobileNumber |-> Trim(v.mobileNumber),
   email |-> Trim(v.email),
   gender |-> v.gender,
   department |-> v.department,
   address |-> Trim(v.address)]

\* ------------------------------------------------------------ photo checks
\* The checks with the size limit taken exclusive (size >= MAX_FILE_SIZE).
AcceptsFileExclusive(f) == f.type \in ACCEPTED_IMAGE_TYPES /\ f.size < MAX_FILE_SIZE
\* FileUpload.handleFileChange keeps a non-null file iff both checks pass.
AcceptsFile(f) ==
  IF f.type \notin ACCEPTED_IMAGE_TYPES THEN FALSE
  ELSE IF f.size > MAX_FILE_SIZE THEN FALSE
  ELSE TRUE

\* RegistrationForm.validatePhoto on the held file: the message it sets
\* ("" when the photo passes).
PhotoError(held) ==
  IF held = None THEN "Please upload a photo"
  ELSE IF held[1].type \notin ACCEPTED_IMAGE_TYPES
    THEN "Only JPG and PNG files are allowed"
  ELSE IF held[1].size > MAX_FILE_SIZE THEN "File size must be less than 2MB"
  ELSE ""

validatePhoto(held) == PhotoError(held) = ""

\* ------------------------------------------------------------------ state
VARIABLES
  form,         \* react-hook-form's field values of the public form
  errors,       \* formState.errors: the fields the last resolver run rejected
  photoFile,    \* RegistrationForm.photoFile (File | null)
  photoError,   \* RegistrationForm.photoError
  isSubmitting, \* RegistrationForm.isSubmitting
  isSuccess,    \* RegistrationForm.isSuccess
  toast,        \* the last notification shown: "none", "success" or "error"
  timers,       \* pending setTimeout(..., 3000) callbacks of onSubmit
  preview,      \* FileUpload.preview (the file whose data URL is shown | null)
  inputValue,   \* the file chosen in the <input type="file"> element | null
  readers,      \* files with a FileReader.readAsDataURL still running
  subs,         \* each submit event's position in handleSubmit(onSubmit)
  rows,         \* public.registrations, in insertion order
  bucket,       \* object paths stored in the registration-photos bucket
  nextId,       \* next identifier the store assigns (gen_random_uuid)
  clock,        \* the store's now()
  probe         \* a single value handed to one validation rule, and its verdict

\* State of the admin side: AdminDashboard, RegistrationsTable, AdminSignup,
\* the authentication hook and the identities and role grants of the store.
VARIABLES
  authLoading,      \* useAuth().isLoading: session resolution still pending
  user,             \* useAuth().user: the identity of the session | null
  isAdmin,          \* useAuth().isAdmin
  navigated,        \* navigate("/admin/login") issued by AdminDashboard
  registrations,    \* AdminDashboard.registrations, the in-memory record set
  isLoading,        \* AdminDashboard.isLoading
  fetching,         \* fetchRegistrations calls still awaiting the store
  dels,             \* each handleDelete call's position
  adminToast,       \* the last notification of the admin pages
  search,           \* RegistrationsTable.search
  departmentFilter, \* RegistrationsTable.departmentFilter
  currentPage,      \* RegistrationsTable.currentPage
  deleteId,         \* RegistrationsTable.deleteId (string | null)
  deletePhotoUrl,   \* RegistrationsTable.deletePhotoUrl
  authUsers,        \* auth.users: the identities of the store
  userRoles,        \* public.user_roles
  signup,           \* AdminSignup.onSubmit's position
  api               \* the last statement a client sent to the store, its result

\* State of the edit modal and of the export of the dashboard.
VARIABLES
  editRegistration, \* AdminDashboard.editRegistration (Registration | null)
  editForm,         \* field values of EditModal's form
  editErrors,       \* formState.errors of EditModal's form
  isSaving,         \* EditModal.isSaving
  saves,            \* each submit event of EditModal: its position
  workbook          \* the file XLSX.writeFile wrote last | null

editVars == <<editRegistration, editForm, editErrors, isSaving, saves, workbook>>

tableVars == <<search, departmentFilter, currentPage, deleteId, deletePhotoUrl>>
dashVars ==
  <<authLoading, user, isAdmin, navigated, registrations, isLoading, fetching,
    dels, adminToast>>
accessVars == <<authUsers, userRoles, signup, api>>
adminVars == <<tableVars, dashVars, accessVars>>

formVars ==
  <<form, errors, photoFile, photoError, isSubmitting, isSuccess, toast, timers,
    preview, inputValue, readers, subs>>
storeVars == <<rows, bucket, nextId, clock>>
vars == <<formVars, storeVars, probe, adminVars, editVars>>

SubIds == 1..MaxSubmits

\* reset() with no default values: every field is back to undefined/empty.
EmptyForm ==
  [fullName |-> <<>>, mobileNumber |-> <<>>, email |-> <<>>,
   gender |-> Undefined, department |-> Undefined, address |-> <<>>]

IdleSub == [pc |-> "idle", raw |-> EmptyForm, file |-> None, path |-> None]

\* A submission whose handler has returned: only its outcome is left.
Ended(outcome) == [IdleSub EXCEPT !.pc = outcome]

IdleProbe ==
  [kind |-> "none", text |-> <<>>, file |-> None, verdict |-> "none",
   verdict2 |-> "none"]

\* --------------------------------------------------- inputs of the behaviours
TenDigits == <<"9", "8", "7", "6", "5", "4", "3", "2", "1", "0">>

\* A form every rule accepts, typed with whitespace around the text fields.
ValidPadded ==
  [fullName |-> <<" ", "A", "l", " ">>,
   mobileNumber |-> <<" ">> \o TenDigits,
   email |-> <<"a", "@", "b", ".", "c", "o", "\n">>,
   gender |-> "female",
   department |-> "Sales",
   address |-> <<"\t", "1", " ", "M", "a", "i", "n", " ", "S", "t", ".", " ">>]

\* The same form with the mobile number written 123-456-7890.
BadMobile ==
  [ValidPadded EXCEPT
     !.mobileNumber = <<"1", "2", "3", "-", "4", "5", "6", "-", "7", "8", "9", "0">>,
     !.address = <<"1", " ", "M", "a", "i", "n", " ", "S", "t", ".">>]

FormInputs == {ValidPadded, BadMobile}

Jpeg500K == [name |-> <<"me", "jpg">>, type |-> "image/jpeg", size |-> 512000]
GifSmall == [name |-> <<"anim", "gif">>, type |-> "image/gif", size |-> 1024]

Files == {Jpeg500K, GifSmall}

\* ------------------------------------------------------------------ storage
\* uploadPhoto: fileExt, fileName and filePath, as "/"-separated segments.
FileExt(f) == f.name[Len(f.name)]
FilePath(f, stamp) == <<"registrations", <<stamp, FileExt(f)>>>>

\* getPublicUrl(filePath): the bucket's public base followed by the path.
PublicBase ==
  <<"https:", "", "project.supabase.co", "storage", "v1", "object", "public",
    "registration-photos">>
PublicUrl(path) == PublicBase \o path

\* The stamps of the paths that are stored or being uploaded.  A generated
\* name is opaque, so a new one is numbered by first use.
StampsInUse ==
  {p[2][1] : p \in bucket \cup {subs[s].path : s \in {k \in SubIds : subs[k].path # None}}}

\* The row the store creates for an insert of `data` with `url`.
NewRow(data, url) ==
  [id |-> nextId,
   full_name |-> data.fullName,
   mobile_number |-> data.mobileNumber,
   email |-> data.email,
   gender |-> data.gender,
   department |-> data.department,
   address |-> data.address,
   photo_url |-> url,
   created_at |-> clock,
   updated_at |-> clock]

\* ---------------------------------------------------------------- FileUpload
\* The form (and FileUpload in it) is rendered unless the success view is.
FormRendered == ~isSuccess

\* handleFileChange(file) for a non-null file.
HandleFile(f) ==
  IF AcceptsFile(f)
    THEN /\ readers' = readers \cup {f}
         /\ photoFile' = Some(f)
         /\ UNCHANGED preview
    ELSE UNCHANGED <<readers, photoFile, preview>>

\* handleFileChange(null).
HandleNull ==
  /\ preview' = None
  /\ photoFile' = None
  /\ UNCHANGED readers

\* <input type="file"> onChange with a chosen file; the label that opens the
\* picker is rendered only while no preview is shown.
SelectFile(f) ==
  /\ FormRendered
  /\ preview = None
  /\ inputValue' = Some(f)
  /\ HandleFile(f)
  /\ UNCHANGED <<form, errors, photoError, isSubmitting, isSuccess, toast, timers,
                 subs, storeVars, probe, adminVars, editVars>>

\* <input type="file"> onChange with an emptied selection (picker cancelled).
SelectNothing ==
  /\ FormRendered
  /\ preview = None
  /\ inputValue # None
  /\ inputValue' = None
  /\ HandleNull
  /\ UNCHANGED <<form, errors, photoError, isSubmitting, isSuccess, toast, timers,
                 subs, storeVars, probe, adminVars, editVars>>

\* handleDrop on the label: the input element is not involved.
DropFile(f) ==
  /\ FormRendered
  /\ preview = None
  /\ HandleFile(f)
  /\ UNCHANGED <<form, errors, photoError, isSubmitting, isSuccess, toast, timers,
                 inputValue, subs, storeVars, probe, adminVars, editVars>>

\* reader.onloadend of a read started by this FileUpload instance.
ReaderDone(f) ==
  /\ f \in readers
  /\ readers' = readers \ {f}
  /\ preview' = Some(f)
  /\ UNCHANGED <<form, errors, photoFile, photoError, isSubmitting, isSuccess,
                 toast, timers, inputValue, subs, storeVars, probe, adminVars, editVars>>

\* clearFile, behind the X button of the preview.
ClearFile ==
  /\ FormRendered
  /\ preview # None
  /\ HandleNull
  /\ inputValue' = None
  /\ UNCHANGED <<form, errors, photoError, isSubmitting, isSuccess, toast, timers,
                 subs, storeVars, probe, adminVars, editVars>>

\* ---------------------------------------------------------- RegistrationForm
\* The user edits the registered fields (they stay editable while submitting).
FillForm(v) ==
  /\ FormRendered
  /\ form # v
  /\ form' = v
  /\ UNCHANGED <<errors, photoFile, photoError, isSubmitting, isSuccess, toast,
                 timers, preview, inputValue, readers, subs, storeVars, probe, adminVars, editVars>>

\* A submit event of the form: the submit button is disabled={isSubmitting}.
\* handleSubmit takes the field values and awaits the zod resolver; the
\* onSubmit it will call closes over the photoFile of this render.
SubmitEvent(s) ==
  /\ FormRendered
  /\ ~isSubmitting
  /\ subs[s].pc = "idle"
  /\ \A k \in SubIds : k < s => subs[k].pc # "idle"
  /\ subs' = [subs EXCEPT ![s] =
                [pc |-> "validating", raw |-> form, file |-> photoFile, path |-> None]]
  /\ UNCHANGED <<form, errors, photoFile, photoError, isSubmitting, isSuccess,
                 toast, timers, preview, inputValue, readers, storeVars, probe, adminVars, editVars>>

\* The resolver rejects: handleSubmit records the errors, onSubmit is not called.
ValidationFails(s) ==
  /\ subs[s].pc = "validating"
  /\ SchemaErrors(subs[s].raw) # {}
  /\ errors' = SchemaErrors(subs[s].raw)
  /\ subs' = [subs EXCEPT ![s] = Ended("invalid")]
  /\ UNCHANGED <<form, photoFile, photoError, isSubmitting, isSuccess, toast,
                 timers, preview, inputValue, readers, storeVars, probe, adminVars, editVars>>

\* The resolver accepts and onSubmit returns at `if (!validatePhoto()) return`.
PhotoCheckFails(s) ==
  /\ subs[s].pc = "validating"
  /\ SchemaErrors(subs[s].raw) = {}
  /\ ~validatePhoto(subs[s].file)
  /\ errors' = {}
  /\ photoError' = PhotoError(subs[s].file)
  /\ subs' = [subs EXCEPT ![s] = Ended("photoRejected")]
  /\ UNCHANGED <<form, photoFile, isSubmitting, isSuccess, toast, timers, preview,
                 inputValue, readers, storeVars, probe, adminVars, editVars>>

\* The resolver accepts, validatePhoto passes, setIsSubmitting(true), and
\* uploadPhoto issues the upload under a generated path.
UploadStarts(s, stamp) ==
  /\ subs[s].pc = "validating"
  /\ stamp <= Cardinality(StampsInUse) + 1
  /\ SchemaErrors(subs[s].raw) = {}
  /\ validatePhoto(subs[s].file)
  /\ errors' = {}
  /\ photoError' = ""
  /\ isSubmitting' = TRUE
  /\ subs' = [subs EXCEPT ![s].pc = "uploading",
                          ![s].path = FilePath(subs[s].file[1], stamp)]
  /\ UNCHANGED <<form, photoFile, isSuccess, toast, timers, preview, inputValue,
                 readers, storeVars, probe, adminVars, editVars>>

\* The upload succeeds (the bucket refuses a path that exists); uploadPhoto
\* returns the public URL and onSubmit issues the insert.
UploadOk(s) ==
  /\ subs[s].pc = "uploading"
  /\ subs[s].path \notin bucket
  /\ bucket' = bucket \cup {subs[s].path}
  /\ subs' = [subs EXCEPT ![s].pc = "inserting"]
  /\ UNCHANGED <<form, errors, photoFile, photoError, isSubmitting, isSuccess,
                 toast, timers, preview, inputValue, readers, rows, nextId, clock,
                 probe, adminVars, editVars>>

\* A catch block of onSubmit that is not followed by the finally.
SubmitFailedLeavesFlag(s, outcome) ==
  /\ toast' = "error"
  /\ subs' = [subs EXCEPT ![s] = Ended(outcome)]
  /\ UNCHANGED <<form, errors, photoFile, photoError, isSubmitting, isSuccess,
                 timers, preview, inputValue, readers, storeVars, probe, adminVars,
                 editVars>>
\* The catch and finally blocks of onSubmit.
SubmitFailed(s, outcome) ==
  /\ toast' = "error"
  /\ isSubmitting' = FALSE
  /\ subs' = [subs EXCEPT ![s] = Ended(outcome)]
  /\ UNCHANGED <<form, errors, photoFile, photoError, isSuccess, timers, preview,
                 inputValue, readers, storeVars, probe, adminVars, editVars>>

\* An uploadPhoto that ignores uploadError and returns the URL all the same.
UploadFailSwallowed(s) ==
  /\ subs[s].pc = "uploading"
  /\ subs' = [subs EXCEPT ![s].pc = "inserting"]
  /\ UNCHANGED <<form, errors, photoFile, photoError, isSubmitting, isSuccess,
                 toast, timers, preview, inputValue, readers, storeVars, probe, adminVars, editVars>>
\* The upload reports an error: uploadPhoto throws, no insert is issued.
UploadFail(s) ==
  /\ subs[s].pc = "uploading"
  /\ SubmitFailed(s, "uploadFailed")

\* The insert succeeds: one row is created, the success view replaces the form
\* (FileUpload is unmounted: its preview state and its readers' callbacks go
\* with it), the 3-second timer is started, finally clears isSubmitting.
InsertOk(s) ==
  /\ subs[s].pc = "inserting"
  /\ rows' = Append(rows, NewRow(SchemaData(subs[s].raw), PublicUrl(subs[s].path)))
  /\ nextId' = nextId + 1
  /\ clock' = clock + 1
  /\ isSuccess' = TRUE
  /\ toast' = "success"
  /\ timers' = timers + 1
  /\ isSubmitting' = FALSE
  /\ preview' = IF FormRendered THEN None ELSE preview
  /\ readers' = IF FormRendered THEN {} ELSE readers
  /\ inputValue' = IF FormRendered THEN None ELSE inputValue
  /\ subs' = [subs EXCEPT ![s] = Ended("success")]
  /\ UNCHANGED <<form, errors, photoFile, photoError, bucket, probe, adminVars, editVars>>

\* A failed insert whose catch block removes the uploaded photo again.
InsertFailRemovesPhoto(s) ==
  /\ subs[s].pc = "inserting"
  /\ toast' = "error"
  /\ isSubmitting' = FALSE
  /\ bucket' = bucket \ {subs[s].path}
  /\ subs' = [subs EXCEPT ![s] = Ended("insertFailed")]
  /\ UNCHANGED <<form, errors, photoFile, photoError, isSuccess, timers, preview,
                 inputValue, readers, rows, nextId, clock, probe, adminVars, editVars>>
\* The insert reports an error: it is thrown to the catch block.
InsertFail(s) ==
  /\ subs[s].pc = "inserting"
  /\ SubmitFailed(s, "insertFailed")

\* The timer callback without its setPhotoFile(null).
TimerFireKeepsPhoto ==
  /\ timers > 0
  /\ timers' = timers - 1
  /\ form' = EmptyForm
  /\ errors' = {}
  /\ isSuccess' = FALSE
  /\ UNCHANGED <<photoFile, photoError, isSubmitting, toast, preview, inputValue,
                 readers, subs, storeVars, probe, adminVars, editVars>>
\* The setTimeout callback of the success branch.
TimerFire ==
  /\ timers > 0
  /\ timers' = timers - 1
  /\ form' = EmptyForm
  /\ errors' = {}
  /\ photoFile' = None
  /\ isSuccess' = FALSE
  /\ UNCHANGED <<photoError, isSubmitting, toast, preview, inputValue, readers,
                 subs, storeVars, probe, adminVars, editVars>>

\* ------------------------------------------------- admin side at mount time
DelIds == 1..MaxDeletes

IdleDel == [pc |-> "idle", id |-> 0, path |-> <<>>]

\* A handleDelete call that has returned: only its outcome is left.
EndedDel(outcome) == [IdleDel EXCEPT !.pc = outcome]

IdleSignup ==
  [pc |-> "idle", email |-> "", uid |-> "", session |-> None, loading |-> FALSE,
   navigated |-> FALSE]

IdleApi ==
  [op |-> "none", session |-> None, target |-> 0, affected |-> {},
   returned |-> {}]

\* RegistrationsTable's useState initial values.
InitTable ==
  /\ search = <<>>
  /\ departmentFilter = "all"
  /\ currentPage = 1
  /\ deleteId = None
  /\ deletePhotoUrl = <<>>

\* AdminDashboard's useState initial values, before useAuth has resolved.
InitDash ==
  /\ authLoading = TRUE
  /\ user = None
  /\ isAdmin = FALSE
  /\ navigated = FALSE
  /\ registrations = <<>>
  /\ isLoading = TRUE
  /\ fetching = 0
  /\ dels = [d \in DelIds |-> IdleDel]
  /\ adminToast = "none"

\* A store with no identity and no role grant; nobody is signing up.
InitAccess ==
  /\ authUsers = {}
  /\ userRoles = {}
  /\ signup = IdleSignup
  /\ api = IdleApi

\* EditModal and the export before anything is opened or written.
SaveIds == 1..MaxSaves

IdleSave == [pc |-> "idle", id |-> 0, raw |-> EmptyForm]

\* A submit event of the modal whose handler has returned.
EndedSave(outcome) == [IdleSave EXCEPT !.pc = outcome]

InitEdit ==
  /\ editRegistration = None
  /\ editForm = EmptyForm
  /\ editErrors = {}
  /\ isSaving = FALSE
  /\ saves = [k \in SaveIds |-> IdleSave]
  /\ workbook = None

InitAdmin == InitTable /\ InitDash /\ InitAccess /\ InitEdit

\* ------------------------------------------------------------ specification
InitForm ==
  /\ form = EmptyForm
  /\ errors = {}
  /\ photoFile = None
  /\ photoError = ""
  /\ isSubmitting = FALSE
  /\ isSuccess = FALSE
  /\ toast = "none"
  /\ timers = 0
  /\ preview = None
  /\ inputValue = None
  /\ readers = {}
  /\ subs = [s \in SubIds |-> IdleSub]
  /\ rows = <<>>
  /\ bucket = {}
  /\ nextId = 1
  /\ clock = 1

Init ==
  /\ InitForm
  /\ probe = IdleProbe
  /\ InitAdmin

Next ==
  \/ \E v \in FormInputs : FillForm(v)
  \/ \E f \in Files : SelectFile(f)
  \/ SelectNothing
  \/ \E f \in Files : DropFile(f)
  \/ \E f \in Files : ReaderDone(f)
  \/ ClearFile
  \/ \E s \in SubIds : SubmitEvent(s)
  \/ \E s \in SubIds : ValidationFails(s)
  \/ \E s \in SubIds : PhotoCheckFails(s)
  \/ \E s \in SubIds, stamp \in 1..NameStamps : UploadStarts(s, stamp)
  \/ \E s \in SubIds : UploadOk(s)
  \/ \E s \in SubIds : UploadFail(s)
  \/ \E s \in SubIds : InsertOk(s)
  \/ \E s \in SubIds : InsertFail(s)
  \/ TimerFire

Spec == Init /\ [][Next]_vars

\* Every started timer fires: setTimeout callbacks are never cancelled.
LiveSpec == Spec /\ WF_vars(TimerFire)

\* ------------------------------------------- the validation rules, one by one
\* A text of n characters, the k-th (if any) replaced by c.
TextBody(base, n, k, c) == [i \in 1..n |-> IF i = k THEN c ELSE base[((i - 1) % 10) + 1]]
Padded(l, body, r) == Rep(" ", l) \o body \o Rep("\n", r)

AllA == Rep("a", 10)
SpecDigits == <<"1", "2", "3", "4", "5", "6", "7", "8", "9", "0">>

LengthsAround(lo, hi) ==
  (0..(lo + LenSlack)) \cup {n \in (hi - LenSlack)..(hi + LenSlack) : n >= 0}

TextProbes(kind, base, lens, odd) ==
  {[kind |-> kind, text |-> Padded(l, TextBody(base, n, k, c), r), file |-> None,
    verdict |-> "pending", verdict2 |-> "none"] :
     l \in 0..MaxPad, r \in 0..MaxPad, n \in lens, k \in {0, 1, 2, 4, 10}, c \in odd}

FullNameProbes ==
  TextProbes("fullName", AllA, LengthsAround(FullNameMin, FullNameMax), {" "})
\* 123-456-7890
DashedMobile == <<"1", "2", "3", "-", "4", "5", "6", "-", "7", "8", "9", "0">>
MobileProbes ==
  TextProbes("mobileNumber", SpecDigits,
             (MobileDigits - LenSlack)..(MobileDigits + LenSlack), {"-", " ", "a"})
    \cup {[kind |-> "mobileNumber", text |-> DashedMobile, file |-> None,
           verdict |-> "pending", verdict2 |-> "none"]}
AddressProbes ==
  TextProbes("address", AllA, LengthsAround(AddressMin, AddressMax), {" "})

ProbeTypes ==
  ACCEPTED_IMAGE_TYPES \cup {"image/gif", "image/webp", "application/pdf", ""}
ProbeSizes ==
  {0, 512000, 1992294, 2202009}
    \cup {n \in (MAX_FILE_SIZE - SizeSlack)..(MAX_FILE_SIZE + SizeSlack) : n >= 0}
PhotoProbes ==
  {[kind |-> "photo", text |-> <<>>,
    file |-> Some([name |-> <<"photo", "img">>, type |-> t, size |-> n]),
    verdict |-> "pending", verdict2 |-> "pending"] :
     t \in ProbeTypes, n \in ProbeSizes}

Verdict(ok) == IF ok THEN "accepted" ELSE "rejected"

Pending(kind) == probe.kind = kind /\ probe.verdict = "pending"

\* registrationSchema.fullName applied to the probed text.
ProbeFullName ==
  /\ Pending("fullName")
  /\ probe' = [probe EXCEPT !.verdict = Verdict(FullNameOk(probe.text))]
  /\ UNCHANGED <<formVars, storeVars, adminVars, editVars>>

\* registrationSchema.mobileNumber applied to the probed text.
ProbeMobile ==
  /\ Pending("mobileNumber")
  /\ probe' = [probe EXCEPT !.verdict = Verdict(MobileOk(probe.text))]
  /\ UNCHANGED <<formVars, storeVars, adminVars, editVars>>

\* registrationSchema.address applied to the probed text.
ProbeAddress ==
  /\ Pending("address")
  /\ probe' = [probe EXCEPT !.verdict = Verdict(AddressOk(probe.text))]
  /\ UNCHANGED <<formVars, storeVars, adminVars, editVars>>

\* handleFileChange (verdict) and validatePhoto (verdict2) on the probed file.
ProbePhoto ==
  /\ Pending("photo")
  /\ probe' = [probe EXCEPT !.verdict = Verdict(AcceptsFile(probe.file[1])),
                            !.verdict2 = Verdict(validatePhoto(probe.file))]
  /\ UNCHANGED <<formVars, storeVars, adminVars, editVars>>

FieldInit ==
  /\ InitForm
  /\ InitAdmin
  /\ probe \in FullNameProbes \cup MobileProbes \cup AddressProbes \cup PhotoProbes

FieldNext == ProbeFullName \/ ProbeMobile \/ ProbeAddress \/ ProbePhoto

FieldSpec == FieldInit /\ [][FieldNext]_vars

\* ------------------------------------------------- access rules of the store
\* public.has_role(_user_id, _role), SECURITY DEFINER: reads every grant.
has_role(uid, role) == [user_id |-> uid, role |-> role] \in userRoles

\* A session is null for the anon key alone, else the identity signed in.
\* TO authenticated: the policy applies to signed-in sessions only.
Authenticated(session) == session # None

\* Row level security of public.registrations: the policies for `cmd`,
\* joined by OR; with none for a command the row is refused.
AdminsOnly(session) == Authenticated(session) /\ has_role(session[1], "admin")

\* Policies that let every session run every command.
RegistrationsPolicyOpenToAll(cmd, session) ==
  cmd \in {"INSERT", "SELECT", "UPDATE", "DELETE"}

\* INSERT: WITH CHECK (true).  SELECT, UPDATE, DELETE: admins only.
RegistrationsPolicy(cmd, session) ==
  CASE cmd = "INSERT" -> TRUE
    [] cmd \in {"SELECT", "UPDATE", "DELETE"} -> AdminsOnly(session)
    [] OTHER -> FALSE

\* Row level security of public.user_roles: one policy, for SELECT.
UserRolesPolicy(cmd, session, grant) ==
  CASE cmd = "SELECT" -> Authenticated(session) /\ session[1] = grant.user_id
    [] OTHER -> FALSE

\* Policies of storage.objects for the registration-photos bucket.
ObjectsPolicy(cmd, session) ==
  CASE cmd \in {"INSERT", "SELECT"} -> TRUE
    [] cmd = "DELETE" -> AdminsOnly(session)
    [] OTHER -> FALSE

\* The rows a statement of `session` sees, and what it leaves behind.
VisibleRows(session) ==
  SelectSeq(rows, LAMBDA r : RegistrationsPolicy("SELECT", session))
RowsAfterDelete(session, id) ==
  SelectSeq(rows, LAMBDA r : ~(r.id = id /\ RegistrationsPolicy("DELETE", session)))
BucketAfterRemove(session, path) ==
  IF ObjectsPolicy("DELETE", session) THEN bucket \ {path} ELSE bucket

\* --------------------------------------------------------- RegistrationsTable
\* String.prototype.toLowerCase on the characters that occur.
UpperCase ==
  <<"A", "B", "C", "D", "E", "F", "G", "H", "I", "J", "K", "L", "M",
    "N", "O", "P", "Q", "R", "S", "T", "U", "V", "W", "X", "Y", "Z">>
LowerCase ==
  <<"a", "b", "c", "d", "e", "f", "g", "h", "i", "j", "k", "l", "m",
    "n", "o", "p", "q", "r", "s", "t", "u", "v", "w", "x", "y", "z">>
LowerOf ==
  [c \in {UpperCase[k] : k \in 1..Len(UpperCase)} |->
     LowerCase[CHOOSE k \in 1..Len(UpperCase) : UpperCase[k] = c]]
toLowerCase(s) ==
  [i \in 1..Len(s) |-> IF s[i] \in DOMAIN LowerOf THEN LowerOf[s[i]] ELSE s[i]]

\* String.prototype.includes
includes(text, part) ==
  \E i \in 0..(Len(text) - Len(part)) : SubSeq(text, i + 1, i + Len(part)) = part

\* Array.prototype.slice(start, end) for 0 <= start <= end.
slice(list, start, end) ==
  SubSeq(list, start + 1, IF end < Len(list) THEN end ELSE Len(list))

\* Math.ceil(n / d) for n >= 0 and d > 0.
ceil(n, d) == IF n % d = 0 THEN n \div d ELSE (n \div d) + 1

\* A search that looks at the name alone.
matchesSearchNameOnly(reg, q) ==
  includes(toLowerCase(reg.full_name), toLowerCase(q))

\* matchesSearch and matchesDepartment of the filter callback.
matchesSearch(reg, q) ==
  \/ includes(toLowerCase(reg.full_name), toLowerCase(q))
  \/ includes(reg.mobile_number, q)
  \/ includes(toLowerCase(reg.email), toLowerCase(q))

matchesDepartment(reg, dept) == dept = "all" \/ reg.department = dept

filteredRegistrations(regs, q, dept) ==
  SelectSeq(regs, LAMBDA reg : matchesSearch(reg, q) /\ matchesDepartment(reg, dept))

totalPages(regs, q, dept) ==
  ceil(Len(filteredRegistrations(regs, q, dept)), ITEMS_PER_PAGE)

startIndex(page) == (page - 1) * ITEMS_PER_PAGE

\* A slice that starts at page * ITEMS_PER_PAGE (pages counted from 0).
paginatedFromPageIndex(regs, q, dept, page) ==
  slice(filteredRegistrations(regs, q, dept), page * ITEMS_PER_PAGE,
        page * ITEMS_PER_PAGE + ITEMS_PER_PAGE)

\* The records of the page: slice(startIndex, startIndex + ITEMS_PER_PAGE).
paginatedRegistrations(regs, q, dept, page) ==
  slice(filteredRegistrations(regs, q, dept), startIndex(page),
        startIndex(page) + ITEMS_PER_PAGE)

\* What the table computes from its state on a render.
Filtered == filteredRegistrations(registrations, search, departmentFilter)
TotalPages == totalPages(registrations, search, departmentFilter)
Paginated ==
  paginatedRegistrations(registrations, search, departmentFilter, currentPage)

\* The table's controls exist once the dashboard renders its content.
TableRendered == ~authLoading /\ user # None /\ isAdmin

\* The confirmation dialog is modal: nothing behind it takes a click.
DialogOpen == deleteId # None

\* A search change that leaves the page where it is.
SetSearchKeepsPage(q) ==
  /\ TableRendered /\ ~DialogOpen
  /\ q # search
  /\ search' = q
  /\ UNCHANGED <<formVars, storeVars, probe, editVars, departmentFilter, currentPage,
                 deleteId, deletePhotoUrl, dashVars, accessVars>>

\* onChange of the search input.
SetSearch(q) ==
  /\ TableRendered /\ ~DialogOpen
  /\ q # search
  /\ search' = q
  /\ currentPage' = 1
  /\ UNCHANGED <<formVars, storeVars, probe, editVars, departmentFilter, deleteId,
                 deletePhotoUrl, dashVars, accessVars>>

\* onValueChange of the department select.
SetDepartment(dept) ==
  /\ TableRendered /\ ~DialogOpen
  /\ dept # departmentFilter
  /\ departmentFilter' = dept
  /\ currentPage' = 1
  /\ UNCHANGED <<formVars, storeVars, probe, editVars, search, deleteId, deletePhotoUrl,
                 dashVars, accessVars>>

\* The Clear button, rendered while a filter is set.
clearFilters ==
  /\ TableRendered /\ ~DialogOpen
  /\ search # <<>> \/ departmentFilter # "all"
  /\ search' = <<>>
  /\ departmentFilter' = "all"
  /\ currentPage' = 1
  /\ UNCHANGED <<formVars, storeVars, probe, editVars, deleteId, deletePhotoUrl,
                 dashVars, accessVars>>

\* The Previous button: rendered with more than one page, disabled on page 1.
PreviousPage ==
  /\ TableRendered /\ ~DialogOpen
  /\ TotalPages > 1
  /\ currentPage # 1
  /\ currentPage' = (IF currentPage - 1 > 1 THEN currentPage - 1 ELSE 1)
  /\ UNCHANGED <<formVars, storeVars, probe, editVars, search, departmentFilter, deleteId,
                 deletePhotoUrl, dashVars, accessVars>>

\* The Next button: rendered with more than one page, disabled on the last.
NextPage ==
  /\ TableRendered /\ ~DialogOpen
  /\ TotalPages > 1
  /\ currentPage # TotalPages
  /\ currentPage' =
       (IF currentPage + 1 < TotalPages THEN currentPage + 1 ELSE TotalPages)
  /\ UNCHANGED <<formVars, storeVars, probe, editVars, search, departmentFilter, deleteId,
                 deletePhotoUrl, dashVars, accessVars>>

\* ----------------------------------------------- the table over stored rows
DigitChars == <<"0", "1", "2", "3", "4", "5", "6", "7", "8", "9">>
TwoDigits(i) == <<DigitChars[(i \div 10) + 1], DigitChars[(i % 10) + 1]>>

SeedNames == <<<<"A", "n", "n">>, <<"B", "e", "n">>, <<"D", "A", "N", "A">>>>
SeedEmails ==
  <<<<"k", "@", "Z", ".", "i", "o">>, <<"m", "@", "y", ".", "c", "o">>>>
SeedDepartments == <<"Sales", "Engineering">>

\* The i-th row the public form has stored: trimmed fields, a ten-digit
\* number, the public URL of its photo.
SeedRow(i) ==
  [id |-> i,
   full_name |-> SeedNames[(i % 3) + 1],
   mobile_number |-> <<"9", "8", "7", "6", "5", "4", "3", "2">> \o TwoDigits(i),
   email |-> SeedEmails[(i % 2) + 1],
   gender |-> "female",
   department |-> SeedDepartments[((i \div 2) % 2) + 1],
   address |-> <<"1", " ", "M", "a", "i", "n", " ", "S", "t", ".">>,
   photo_url |-> PublicUrl(FilePath(Jpeg500K, i)),
   created_at |-> i,
   updated_at |-> i]

\* A store holding n registrations and their photos.
SeededStore(n) ==
  /\ rows = [i \in 1..n |-> SeedRow(i)]
  /\ bucket = {FilePath(Jpeg500K, i) : i \in 1..n}
  /\ nextId = n + 1
  /\ clock = n + 1

\* The public form as mounted, untouched.
FormAtMount ==
  /\ form = EmptyForm
  /\ errors = {}
  /\ photoFile = None
  /\ photoError = ""
  /\ isSubmitting = FALSE
  /\ isSuccess = FALSE
  /\ toast = "none"
  /\ timers = 0
  /\ preview = None
  /\ inputValue = None
  /\ readers = {}
  /\ subs = [s \in SubIds |-> IdleSub]

AdminUid == "uid-admin"
PlainUid == "uid-plain"
AdminGrant == [user_id |-> AdminUid, role |-> "admin"]

\* .order("created_at", { ascending: false }): created_at grows with every
\* insert, so the newest row comes first.
OrderedNewestFirst(list) == [i \in 1..Len(list) |-> list[Len(list) + 1 - i]]

\* Record counts around the page size.
RecordCounts == {0, 1, ITEMS_PER_PAGE, ITEMS_PER_PAGE + 1, MaxRecords}

SearchTexts ==
  {<<>>, <<"a", "n">>, <<"A", "N">>, <<"z", ".">>, <<"3", "2", "0">>, <<"q">>}

DepartmentChoices == {"all"} \cup DEPARTMENTS

\* The dashboard of a signed-in admin once its fetch has answered.
TableInit ==
  /\ FormAtMount
  /\ probe = IdleProbe
  /\ \E n \in RecordCounts : SeededStore(n)
  /\ authUsers = {AdminUid}
  /\ userRoles = {AdminGrant}
  /\ signup = IdleSignup
  /\ api = IdleApi
  /\ authLoading = FALSE
  /\ user = Some(AdminUid)
  /\ isAdmin = TRUE
  /\ navigated = FALSE
  /\ registrations = OrderedNewestFirst(rows)
  /\ isLoading = FALSE
  /\ fetching = 0
  /\ dels = [d \in DelIds |-> IdleDel]
  /\ adminToast = "none"
  /\ InitTable
  /\ InitEdit

TableNext ==
  \/ \E q \in SearchTexts : SetSearch(q)
  \/ \E dept \in DepartmentChoices : SetDepartment(dept)
  \/ clearFilters
  \/ PreviousPage
  \/ NextPage

TableSpec == TableInit /\ [][TableNext]_vars

\* ------------------------------------------------------------ AdminDashboard
\* A redirect that does not wait for the session to be resolved.
RedirectEffectIgnoresLoading(loading, u, admin) == u = None \/ ~admin

\* The effect that sends the visitor to /admin/login.
RedirectEffect(loading, u, admin) == ~loading /\ (u = None \/ ~admin)

\* The effect that calls fetchRegistrations.
FetchEffect(u, admin) == u # None /\ admin

\* useAuth: the session and its admin role have been resolved.  The
\* dashboard renders again and its two effects run.
AuthResolved(u) ==
  /\ authLoading
  /\ authLoading' = FALSE
  /\ user' = u
  /\ isAdmin' = (u # None /\ has_role(u[1], "admin"))
  /\ navigated' = (navigated \/ RedirectEffect(authLoading', user', isAdmin'))
  /\ IF FetchEffect(user', isAdmin')
     THEN fetching' = fetching + 1
     ELSE fetching' = fetching
  /\ UNCHANGED <<formVars, storeVars, probe, editVars, registrations, isLoading, dels,
                 adminToast, tableVars, accessVars>>

\* fetchRegistrations: the select answered with the rows the session may see.
FetchOk ==
  /\ fetching > 0
  /\ fetching' = fetching - 1
  /\ registrations' = OrderedNewestFirst(VisibleRows(user))
  /\ isLoading' = FALSE
  /\ UNCHANGED <<formVars, storeVars, probe, editVars, authLoading, user, isAdmin,
                 navigated, dels, adminToast, tableVars, accessVars>>

\* fetchRegistrations: the select failed.
FetchFail ==
  /\ fetching > 0
  /\ fetching' = fetching - 1
  /\ adminToast' = "error"
  /\ isLoading' = FALSE
  /\ UNCHANGED <<formVars, storeVars, probe, editVars, authLoading, user, isAdmin,
                 navigated, registrations, dels, tableVars, accessVars>>

\* The rows the table shows: none while the dashboard is loading.
RowsShown == IF TableRendered /\ ~isLoading THEN Paginated ELSE <<>>

\* A path made of the last segment of the URL only.
PathOfUrlLastSegment(url) == SubSeq(url, Len(url), Len(url))
\* urlParts.slice(-2).join("/") of photoUrl.split("/")
PathOfUrl(url) == SubSeq(url, Len(url) - 1, Len(url))

\* The handleDelete call that the next confirmation starts.
FreeDel(d) ==
  /\ dels[d].pc = "idle"
  /\ \A e \in DelIds : e < d => dels[e].pc # "idle"

\* handleDelete up to its first await: the bucket removal is issued.
DeleteStarted(d, id, photoUrl) ==
  [dels EXCEPT ![d] = [pc |-> "removing", id |-> id, path |-> PathOfUrl(photoUrl)]]

\* A trash button that starts the delete without asking.
handleDeleteClickDeletesAtOnce(reg) ==
  /\ ~DialogOpen
  /\ \E k \in 1..Len(RowsShown) : RowsShown[k] = reg
  /\ \E d \in DelIds : FreeDel(d) /\ dels' = DeleteStarted(d, reg.id, reg.photo_url)
  /\ UNCHANGED <<formVars, storeVars, probe, editVars, search, departmentFilter,
                 currentPage, deleteId, deletePhotoUrl, authLoading, user,
                 isAdmin, navigated, registrations, isLoading, fetching,
                 adminToast, accessVars>>

\* The trash button of a row: the confirmation dialog opens.
handleDeleteClick(reg) ==
  /\ ~DialogOpen
  /\ \E k \in 1..Len(RowsShown) : RowsShown[k] = reg
  /\ deleteId' = Some(reg.id)
  /\ deletePhotoUrl' = reg.photo_url
  /\ UNCHANGED <<formVars, storeVars, probe, editVars, search, departmentFilter,
                 currentPage, dashVars, accessVars>>

\* Cancel, Escape or a click outside: onOpenChange closes the dialog.
CancelDelete ==
  /\ DialogOpen
  /\ deleteId' = None
  /\ UNCHANGED <<formVars, storeVars, probe, editVars, search, departmentFilter,
                 currentPage, deletePhotoUrl, dashVars, accessVars>>

\* The Delete button of the dialog: confirmDelete calls onDelete.
confirmDelete(d) ==
  /\ DialogOpen
  /\ FreeDel(d)
  /\ dels' = DeleteStarted(d, deleteId[1], deletePhotoUrl)
  /\ deleteId' = None
  /\ deletePhotoUrl' = <<>>
  /\ UNCHANGED <<formVars, storeVars, probe, editVars, search, departmentFilter,
                 currentPage, authLoading, user, isAdmin, navigated,
                 registrations, isLoading, fetching, adminToast, accessVars>>

\* A bucket removal whose failure ends handleDelete in its catch block.
RemoveAnsweredFailureAborts(d, removed) ==
  /\ dels[d].pc = "removing"
  /\ bucket' = (IF removed THEN BucketAfterRemove(user, dels[d].path) ELSE bucket)
  /\ dels' = [dels EXCEPT ![d] =
                IF removed THEN [dels[d] EXCEPT !.pc = "deleting"]
                ELSE EndedDel("failed")]
  /\ adminToast' = (IF removed THEN adminToast ELSE "error")
  /\ UNCHANGED <<formVars, rows, nextId, clock, probe, editVars, tableVars, authLoading,
                 user, isAdmin, navigated, registrations, isLoading, fetching,
                 accessVars>>

\* handleDelete: the awaited bucket removal has answered (its result is not
\* looked at) and the row deletion is issued.
RemoveAnswered(d, removed) ==
  /\ dels[d].pc = "removing"
  /\ bucket' = (IF removed THEN BucketAfterRemove(user, dels[d].path) ELSE bucket)
  /\ dels' = [dels EXCEPT ![d].pc = "deleting"]
  /\ UNCHANGED <<formVars, rows, nextId, clock, probe, editVars, tableVars, authLoading,
                 user, isAdmin, navigated, registrations, isLoading, fetching,
                 adminToast, accessVars>>

\* A successful row deletion that forgets setRegistrations.
DeleteRowOkKeepsList(d) ==
  /\ dels[d].pc = "deleting"
  /\ rows' = RowsAfterDelete(user, dels[d].id)
  /\ adminToast' = "success"
  /\ dels' = [dels EXCEPT ![d] = EndedDel("done")]
  /\ UNCHANGED <<formVars, bucket, nextId, clock, probe, editVars, tableVars, authLoading,
                 user, isAdmin, navigated, registrations, isLoading, fetching,
                 accessVars>>

\* handleDelete: the row deletion answered without an error.  A delete that
\* matches no row is not an error of the store.
DeleteRowOk(d) ==
  /\ dels[d].pc = "deleting"
  /\ rows' = RowsAfterDelete(user, dels[d].id)
  /\ registrations' = SelectSeq(registrations, LAMBDA r : r.id # dels[d].id)
  /\ adminToast' = "success"
  /\ dels' = [dels EXCEPT ![d] = EndedDel("done")]
  /\ UNCHANGED <<formVars, bucket, nextId, clock, probe, editVars, tableVars, authLoading,
                 user, isAdmin, navigated, isLoading, fetching, accessVars>>

\* A failed row deletion that still drops the record from the list.
DeleteRowFailPatchesList(d) ==
  /\ dels[d].pc = "deleting"
  /\ registrations' = SelectSeq(registrations, LAMBDA r : r.id # dels[d].id)
  /\ adminToast' = "error"
  /\ dels' = [dels EXCEPT ![d] = EndedDel("failed")]
  /\ UNCHANGED <<formVars, storeVars, probe, editVars, tableVars, authLoading, user,
                 isAdmin, navigated, isLoading, fetching, accessVars>>

\* handleDelete: the row deletion reported an error; the catch block runs.
DeleteRowFail(d) ==
  /\ dels[d].pc = "deleting"
  /\ adminToast' = "error"
  /\ dels' = [dels EXCEPT ![d] = EndedDel("failed")]
  /\ UNCHANGED <<formVars, storeVars, probe, editVars, tableVars, authLoading, user,
                 isAdmin, navigated, registrations, isLoading, fetching,
                 accessVars>>

\* handleDelete run to its end by the dashboard of another admin session:
\* the photo object and the row are gone from the store.
DeletedElsewhere(id) ==
  /\ \E k \in 1..Len(rows) : rows[k].id = id
  /\ bucket' = bucket \ {PathOfUrl(rows[k].photo_url) :
                           k \in {j \in 1..Len(rows) : rows[j].id = id}}
  /\ rows' = SelectSeq(rows, LAMBDA r : r.id # id)
  /\ UNCHANGED <<formVars, nextId, clock, probe, adminVars, editVars>>

\* Record counts of the store the dashboard opens on.
AdminRecordCounts == {1, 2}

\* The sessions useAuth can resolve to: none, the admin, another account.
Sessions == {None, Some(AdminUid), Some(PlainUid)}

\* The rows of the page whose trash button is pressed: its first and last.
RowsClicked ==
  IF RowsShown = <<>> THEN {} ELSE {RowsShown[1], RowsShown[Len(RowsShown)]}

\* The dashboard as mounted over a store that holds registrations.
AdminInit ==
  /\ FormAtMount
  /\ probe = IdleProbe
  /\ \E n \in AdminRecordCounts : SeededStore(n)
  /\ authUsers = {AdminUid, PlainUid}
  /\ userRoles = {AdminGrant, [user_id |-> PlainUid, role |-> "user"]}
  /\ signup = IdleSignup
  /\ api = IdleApi
  /\ authLoading = TRUE
  /\ user = None
  /\ isAdmin = FALSE
  /\ navigated = RedirectEffect(authLoading, user, isAdmin)
  /\ registrations = <<>>
  /\ isLoading = TRUE
  /\ fetching = (IF FetchEffect(user, isAdmin) THEN 1 ELSE 0)
  /\ dels = [d \in DelIds |-> IdleDel]
  /\ adminToast = "none"
  /\ InitTable
  /\ InitEdit

\* The gate, the fetch and the delete workflow of the dashboard.
AdminNext ==
  \/ \E u \in Sessions : AuthResolved(u)
  \/ FetchOk
  \/ FetchFail
  \/ \E reg \in RowsClicked : handleDeleteClick(reg)
  \/ CancelDelete
  \/ \E d \in DelIds : confirmDelete(d)
  \/ \E d \in DelIds, removed \in BOOLEAN : RemoveAnswered(d, removed)
  \/ \E d \in DelIds : DeleteRowOk(d)
  \/ \E d \in DelIds : DeleteRowFail(d)
  \/ \E id \in 1..(nextId - 1) : DeletedElsewhere(id)

AdminSpec == AdminInit /\ [][AdminNext]_vars

\* ------------------------------------------- the table while records go away
\* Record counts that fill more than one page.
PagedRecordCounts == {ITEMS_PER_PAGE + 1, 2 * ITEMS_PER_PAGE}

PagedSearchTexts == {<<>>, <<"a", "n">>}
PagedDepartmentChoices == {"all", "Sales"}

\* The dashboard of a signed-in admin once its fetch has answered, over a
\* store of several pages.
PagedInit ==
  /\ FormAtMount
  /\ probe = IdleProbe
  /\ \E n \in PagedRecordCounts : SeededStore(n)
  /\ authUsers = {AdminUid}
  /\ userRoles = {AdminGrant}
  /\ signup = IdleSignup
  /\ api = IdleApi
  /\ authLoading = FALSE
  /\ user = Some(AdminUid)
  /\ isAdmin = TRUE
  /\ navigated = FALSE
  /\ registrations = OrderedNewestFirst(rows)
  /\ isLoading = FALSE
  /\ fetching = 0
  /\ dels = [d \in DelIds |-> IdleDel]
  /\ adminToast = "none"
  /\ InitTable
  /\ InitEdit

\* Filtering, paging and the deletion of one record.
PagedNext ==
  \/ \E q \in PagedSearchTexts : SetSearch(q)
  \/ \E dept \in PagedDepartmentChoices : SetDepartment(dept)
  \/ clearFilters
  \/ PreviousPage
  \/ NextPage
  \/ \E reg \in RowsClicked : handleDeleteClick(reg)
  \/ CancelDelete
  \/ confirmDelete(1)
  \/ RemoveAnswered(1, TRUE)
  \/ DeleteRowOk(1)
  \/ DeleteRowFail(1)

PagedSpec == PagedInit /\ [][PagedNext]_vars

\* ------------------------------------------------ clients against the store
\* { ...r, ...data }: the row with the fields of `data` replaced.
ApplyPatch(r, data) ==
  [f \in DOMAIN r |-> IF f \in DOMAIN data THEN data[f] ELSE r[f]]

\* .update(data).eq("id", id) under the update policy; the trigger stamps
\* updated_at with now().
RowsAfterUpdate(session, id, data) ==
  [k \in 1..Len(rows) |->
     IF rows[k].id = id /\ RegistrationsPolicy("UPDATE", session)
     THEN [ApplyPatch(rows[k], data) EXCEPT !.updated_at = clock]
     ELSE rows[k]]

IdsOf(list) == {list[k].id : k \in 1..Len(list)}

\* .insert({...}) into registrations by a client holding `session`.
ApiInsert(session, data) ==
  /\ clock < MaxClock
  /\ IF RegistrationsPolicy("INSERT", session)
     THEN /\ rows' = Append(rows, NewRow(data, PublicUrl(FilePath(Jpeg500K, nextId))))
          /\ nextId' = nextId + 1
          /\ clock' = clock + 1
          /\ api' = [op |-> "INSERT", session |-> session, target |-> nextId,
                     affected |-> {nextId}, returned |-> {}]
     ELSE /\ UNCHANGED <<rows, nextId, clock>>
          /\ api' = [op |-> "INSERT", session |-> session, target |-> nextId,
                     affected |-> {}, returned |-> {}]
  /\ UNCHANGED <<formVars, bucket, probe, editVars, tableVars, dashVars, authUsers,
                 userRoles, signup>>

\* .select("*") on registrations.
ApiSelect(session) ==
  /\ api' = [op |-> "SELECT", session |-> session, target |-> 0,
             affected |-> {}, returned |-> IdsOf(VisibleRows(session))]
  /\ UNCHANGED <<formVars, storeVars, probe, editVars, tableVars, dashVars, authUsers,
                 userRoles, signup>>

\* .update(data).eq("id", id) on registrations.
ApiUpdate(session, id, data) ==
  /\ clock < MaxClock
  /\ rows' = RowsAfterUpdate(session, id, data)
  /\ clock' = clock + 1
  /\ api' = [op |-> "UPDATE", session |-> session, target |-> id,
             affected |-> {rows[k].id : k \in {j \in 1..Len(rows) : rows'[j] # rows[j]}},
             returned |-> {}]
  /\ UNCHANGED <<formVars, bucket, nextId, probe, editVars, tableVars, dashVars,
                 authUsers, userRoles, signup>>

\* .delete().eq("id", id) on registrations.
ApiDelete(session, id) ==
  /\ rows' = RowsAfterDelete(session, id)
  /\ api' = [op |-> "DELETE", session |-> session, target |-> id,
             affected |-> IdsOf(rows) \ IdsOf(rows'), returned |-> {}]
  /\ UNCHANGED <<formVars, bucket, nextId, clock, probe, editVars, tableVars, dashVars,
                 authUsers, userRoles, signup>>

\* ---------------------------------------------------------------- AdminSignup
NewUid == "uid-new"

\* onSubmit up to its first await: auth.signUp is issued.
SignupSubmit(email) ==
  /\ signup.pc = "idle"
  /\ signup' = [signup EXCEPT !.pc = "signingUp", !.email = email,
                              !.loading = TRUE]
  /\ UNCHANGED <<formVars, storeVars, probe, editVars, tableVars, dashVars, authUsers,
                 userRoles, api>>

\* auth.signUp reported an error: toast, return, finally.
SignUpFailed ==
  /\ signup.pc = "signingUp"
  /\ signup' = [signup EXCEPT !.pc = "signUpFailed", !.loading = FALSE]
  /\ adminToast' = "error"
  /\ UNCHANGED <<formVars, storeVars, probe, editVars, tableVars, authLoading, user,
                 isAdmin, navigated, registrations, isLoading, fetching, dels,
                 authUsers, userRoles, api>>

\* auth.signUp created the identity; the client holds its session unless the
\* address must be confirmed first.  authData.user is set, so the insert
\* into user_roles is issued.
SignUpAnswered(sessionIssued) ==
  /\ signup.pc = "signingUp"
  /\ authUsers' = authUsers \cup {NewUid}
  /\ signup' = [signup EXCEPT
                  !.pc = "grantingRole",
                  !.uid = NewUid,
                  !.session = IF sessionIssued THEN Some(NewUid) ELSE None]
  /\ UNCHANGED <<formVars, storeVars, probe, editVars, tableVars, dashVars, userRoles,
                 api>>

\* The insert into user_roles answered: refused by the store (or not
\* delivered) gives roleError, else the grant exists and /admin is opened.
RoleInsertAnswered(delivered) ==
  /\ signup.pc = "grantingRole"
  /\ LET grant == [user_id |-> signup.uid, role |-> "admin"] IN
     IF delivered /\ UserRolesPolicy("INSERT", signup.session, grant)
     THEN /\ userRoles' = userRoles \cup {grant}
          /\ adminToast' = "success"
          /\ signup' = [signup EXCEPT !.pc = "done", !.loading = FALSE,
                                      !.navigated = TRUE]
     ELSE /\ userRoles' = userRoles
          /\ adminToast' = "error"
          /\ signup' = [signup EXCEPT !.pc = "roleFailed", !.loading = FALSE]
  /\ UNCHANGED <<formVars, storeVars, probe, editVars, tableVars, authLoading, user,
                 isAdmin, navigated, registrations, isLoading, fetching, dels,
                 authUsers, api>>

\* ------------------------------------------------ the store and its clients
\* The sessions a client can hold: the anon key alone, or an identity.
ClientSessions == {None} \cup {Some(u) : u \in authUsers}

InsertedData == {SchemaData(ValidPadded)}
Patches == {[full_name |-> <<"Z", "o", "e">>]}
SignupEmails == {"new@admin.example"}

\* A store with one registration, an admin and an account without the role;
\* the signup page is open.
AccessInit ==
  /\ FormAtMount
  /\ probe = IdleProbe
  /\ SeededStore(1)
  /\ authUsers = {AdminUid, PlainUid}
  /\ userRoles = {AdminGrant, [user_id |-> PlainUid, role |-> "user"]}
  /\ signup = IdleSignup
  /\ api = IdleApi
  /\ InitDash
  /\ InitTable
  /\ InitEdit

AccessNext ==
  \/ \E session \in ClientSessions, data \in InsertedData : ApiInsert(session, data)
  \/ \E session \in ClientSessions : ApiSelect(session)
  \/ \E session \in ClientSessions, id \in 1..(nextId - 1), data \in Patches :
       ApiUpdate(session, id, data)
  \/ \E session \in ClientSessions, id \in 1..(nextId - 1) : ApiDelete(session, id)
  \/ \E email \in SignupEmails : SignupSubmit(email)
  \/ SignUpFailed
  \/ \E sessionIssued \in BOOLEAN : SignUpAnswered(sessionIssued)
  \/ \E delivered \in BOOLEAN : RoleInsertAnswered(delivered)

AccessSpec == AccessInit /\ [][AccessNext]_vars

\* ----------------------------------------------------------------- EditModal
\* An edit of a record is open.
EditOpen == editRegistration # None

\* The useEffect on [registration, reset]: the form takes the record's values.
FormOfRecord(reg) ==
  [fullName |-> reg.full_name,
   mobileNumber |-> reg.mobile_number,
   email |-> reg.email,
   gender |-> reg.gender,
   department |-> reg.department,
   address |-> reg.address]

\* The object onSubmit hands to onSave: the six editable columns.
PatchOfForm(data) ==
  [full_name |-> data.fullName,
   mobile_number |-> data.mobileNumber,
   email |-> data.email,
   gender |-> data.gender,
   department |-> data.department,
   address |-> data.address]

\* The pencil button of a row: setEditRegistration(reg); the modal renders
\* and its effect resets the form to the record.
onEdit(reg) ==
  /\ ~DialogOpen
  /\ ~EditOpen
  /\ \E k \in 1..Len(RowsShown) : RowsShown[k] = reg
  /\ editRegistration' = Some(reg)
  /\ editForm' = FormOfRecord(reg)
  /\ editErrors' = {}
  /\ UNCHANGED <<formVars, storeVars, probe, adminVars, isSaving, saves, workbook>>

\* The admin changes a field of the modal (the fields stay editable while
\* a save is in flight).
EditType(v) ==
  /\ EditOpen
  /\ editForm # v
  /\ editForm' = v
  /\ UNCHANGED <<formVars, storeVars, probe, adminVars, editRegistration,
                 editErrors, isSaving, saves, workbook>>

\* The X button, the backdrop or Cancel: onClose, whatever isSaving is.
CloseEdit ==
  /\ EditOpen
  /\ editRegistration' = None
  /\ UNCHANGED <<formVars, storeVars, probe, adminVars, editForm, editErrors,
                 isSaving, saves, workbook>>

\* The submit event that the next click on Save Changes starts.
FreeSave(k) ==
  /\ saves[k].pc = "idle"
  /\ \A e \in SaveIds : e < k => saves[e].pc # "idle"

\* Save Changes (disabled={isSaving}): handleSubmit takes the field values
\* and awaits the resolver; the onSubmit it will call closes over the
\* registration of this render.
EditSubmitEvent(k) ==
  /\ EditOpen
  /\ ~isSaving
  /\ FreeSave(k)
  /\ saves' = [saves EXCEPT ![k] =
                 [pc |-> "validating", id |-> editRegistration[1].id,
                  raw |-> editForm]]
  /\ UNCHANGED <<formVars, storeVars, probe, adminVars, editRegistration,
                 editForm, editErrors, isSaving, workbook>>

\* The resolver rejects: the errors are recorded, onSubmit is not called.
EditInvalid(k) ==
  /\ saves[k].pc = "validating"
  /\ SchemaErrors(saves[k].raw) # {}
  /\ editErrors' = SchemaErrors(saves[k].raw)
  /\ saves' = [saves EXCEPT ![k] = EndedSave("invalid")]
  /\ UNCHANGED <<formVars, storeVars, probe, adminVars, editRegistration,
                 editForm, isSaving, workbook>>

\* The resolver accepts: onSubmit sets isSaving and calls onSave, whose
\* handleUpdate issues the update of the row with the captured id.
SaveStarts(k) ==
  /\ saves[k].pc = "validating"
  /\ SchemaErrors(saves[k].raw) = {}
  /\ editErrors' = {}
  /\ isSaving' = TRUE
  /\ saves' = [saves EXCEPT ![k].pc = "updating"]
  /\ UNCHANGED <<formVars, storeVars, probe, adminVars, editRegistration,
                 editForm, workbook>>

\* prev.map((r) => (r.id === id ? { ...r, ...data } : r))
PatchedList(list, id, data) ==
  [i \in 1..Len(list) |->
     IF list[i].id = id THEN ApplyPatch(list[i], data) ELSE list[i]]

\* handleUpdate: the update answered without an error; the list is patched,
\* the success toast shown; back in onSubmit, onClose() and the finally.
UpdateOk(k) ==
  /\ saves[k].pc = "updating"
  /\ clock < MaxClock
  /\ rows' = RowsAfterUpdate(user, saves[k].id, PatchOfForm(SchemaData(saves[k].raw)))
  /\ clock' = clock + 1
  /\ registrations' =
       PatchedList(registrations, saves[k].id, PatchOfForm(SchemaData(saves[k].raw)))
  /\ adminToast' = "success"
  /\ editRegistration' = None
  /\ isSaving' = FALSE
  /\ saves' = [saves EXCEPT ![k] = EndedSave("done")]
  /\ UNCHANGED <<formVars, bucket, nextId, probe, tableVars, authLoading, user,
                 isAdmin, navigated, isLoading, fetching, dels, accessVars,
                 editForm, editErrors, workbook>>

\* handleUpdate: the update reported an error; its catch block shows the
\* error toast and returns, so onSubmit goes on to onClose() and the finally.
UpdateFail(k) ==
  /\ saves[k].pc = "updating"
  /\ adminToast' = "error"
  /\ editRegistration' = None
  /\ isSaving' = FALSE
  /\ saves' = [saves EXCEPT ![k] = EndedSave("failed")]
  /\ UNCHANGED <<formVars, storeVars, probe, tableVars, authLoading, user,
                 isAdmin, navigated, registrations, isLoading, fetching, dels,
                 accessVars, editForm, editErrors, workbook>>

\* ------------------------------------------------- the dashboard while editing
EditRecordCounts == {1, 2}
EditNames == {<<" ", "Z", "o", "e">>, <<"Q">>}
EditDepartments == {"Support"}

\* What the admin may type into the open modal.
EditInputs ==
  {[editForm EXCEPT !.fullName = n] : n \in EditNames}
    \cup {[editForm EXCEPT !.department = dept] : dept \in EditDepartments}

\* The dashboard at mount time over a store of one or two registrations.
EditInit ==
  /\ FormAtMount
  /\ probe = IdleProbe
  /\ \E n \in EditRecordCounts : SeededStore(n)
  /\ authUsers = {AdminUid, PlainUid}
  /\ userRoles = {AdminGrant, [user_id |-> PlainUid, role |-> "user"]}
  /\ signup = IdleSignup
  /\ api = IdleApi
  /\ authLoading = TRUE
  /\ user = None
  /\ isAdmin = FALSE
  /\ navigated = RedirectEffect(authLoading, user, isAdmin)
  /\ registrations = <<>>
  /\ isLoading = TRUE
  /\ fetching = (IF FetchEffect(user, isAdmin) THEN 1 ELSE 0)
  /\ dels = [d \in DelIds |-> IdleDel]
  /\ adminToast = "none"
  /\ InitTable
  /\ InitEdit

\* The gate, the fetch and the edit workflow of the dashboard.
EditNext ==
  \/ \E u \in Sessions : AuthResolved(u)
  \/ FetchOk
  \/ FetchFail
  \/ \E reg \in RowsClicked : onEdit(reg)
  \/ \E v \in EditInputs : EditType(v)
  \/ CloseEdit
  \/ \E k \in SaveIds : EditSubmitEvent(k)
  \/ \E k \in SaveIds : EditInvalid(k)
  \/ \E k \in SaveIds : SaveStarts(k)
  \/ \E k \in SaveIds : UpdateOk(k)
  \/ \E k \in SaveIds : UpdateFail(k)

EditSpec == EditInit /\ [][EditNext]_vars

\* -------------------------------------------------------------- handleExport
\* new Date(t).toLocaleDateString() / toISOString().split("T")[0]: the
\* calendar day of an instant, the time of day dropped.
toLocaleDateString(t) == <<"locale", t \div TicksPerDay>>
toISODate(t) == <<"iso", t \div TicksPerDay>>

\* The object handleExport makes of a record: its keys in literal order.
ExportObject(reg) ==
  <<<<"Name", reg.full_name>>,
    <<"Mobile", reg.mobile_number>>,
    <<"Email", reg.email>>,
    <<"Gender", reg.gender>>,
    <<"Department", reg.department>>,
    <<"Address", reg.address>>,
    <<"Registered Date", toLocaleDateString(reg.created_at)>>>>

\* An export that writes the filtered records only.
exportDataOfFiltered == [i \in 1..Len(Filtered) |-> ExportObject(Filtered[i])]
\* registrations.map((reg) => ({...}))
exportData == [i \in 1..Len(registrations) |-> ExportObject(registrations[i])]

\* Object.keys(obj) and obj[key] of an object written as key/value pairs.
KeysOf(obj) == [i \in 1..Len(obj) |-> obj[i][1]]
ValueOf(obj, key) ==
  LET at == {i \in 1..Len(obj) : obj[i][1] = key}
  IN  IF at = {} THEN <<>> ELSE obj[CHOOSE i \in at : TRUE][2]

\* XLSX.utils.json_to_sheet: the header is collected from the keys of the
\* objects in order of first appearance; one header cell per collected key,
\* then one row per object.  A row without a cell is no row of the sheet.
RECURSIVE HeaderOf(_, _)
HeaderOf(data, hdr) ==
  IF data = <<>> THEN hdr
  ELSE HeaderOf(Tail(data),
                hdr \o SelectSeq(KeysOf(Head(data)),
                                 LAMBDA key : \A c \in 1..Len(hdr) : hdr[c] # key))

json_to_sheet(data) ==
  LET hdr == HeaderOf(data, <<>>)
  IN  (IF hdr = <<>> THEN <<>> ELSE <<hdr>>)
        \o [i \in 1..Len(data) |-> [c \in 1..Len(hdr) |-> ValueOf(data[i], hdr[c])]]

\* book_new, book_append_sheet(wb, ws, "Registrations") and the file name.
WorkbookOf(data, now) ==
  [SheetNames |-> <<"Registrations">>,
   Sheets |-> <<json_to_sheet(data)>>,
   fileName |-> <<"registrations-", toISODate(now), ".xlsx">>]

\* An Export button that writes what the filters leave.
handleExportOfFiltered ==
  /\ TableRendered
  /\ ~DialogOpen
  /\ ~EditOpen
  /\ workbook' = Some(WorkbookOf(exportDataOfFiltered, clock))
  /\ adminToast' = "success"
  /\ UNCHANGED <<formVars, storeVars, probe, tableVars, authLoading, user,
                 isAdmin, navigated, registrations, isLoading, fetching, dels,
                 accessVars, editRegistration, editForm, editErrors, isSaving,
                 saves>>

\* The Export button: the workbook is built from the in-memory list and
\* written by XLSX.writeFile; the success toast is shown.
handleExport ==
  /\ TableRendered
  /\ ~DialogOpen
  /\ ~EditOpen
  /\ workbook' = Some(WorkbookOf(exportData, clock))
  /\ adminToast' = "success"
  /\ UNCHANGED <<formVars, storeVars, probe, tableVars, authLoading, user,
                 isAdmin, navigated, registrations, isLoading, fetching, dels,
                 accessVars, editRegistration, editForm, editErrors, isSaving,
                 saves>>

\* The table of a signed-in admin with its filters, pages and Export button.
ExportNext == TableNext \/ handleExport

ExportSpec == TableInit /\ [][ExportNext]_vars

\* ------------------------------------- from the public form to the dashboard
\* An accepted photo whose name has more than one dot.
PngDotted ==
  [name |-> <<"id", "card", "png">>, type |-> "image/png", size |-> 1048576]

PipelineFiles == {PngDotted}

\* An empty store with one admin; the public form and the dashboard are
\* both at mount time.
PipelineInit ==
  /\ InitForm
  /\ probe = IdleProbe
  /\ authUsers = {AdminUid}
  /\ userRoles = {AdminGrant}
  /\ signup = IdleSignup
  /\ api = IdleApi
  /\ InitDash
  /\ InitTable
  /\ InitEdit

\* Visitors register through the public form; the admin signs in, fetches
\* and runs one confirmed delete.
PipelineNext ==
  \/ FillForm(ValidPadded)
  \/ \E f \in PipelineFiles : DropFile(f)
  \/ \E s \in SubIds : SubmitEvent(s)
  \/ \E s \in SubIds : ValidationFails(s)
  \/ \E s \in SubIds : PhotoCheckFails(s)
  \/ \E s \in SubIds, stamp \in 1..NameStamps : UploadStarts(s, stamp)
  \/ \E s \in SubIds : UploadOk(s)
  \/ \E s \in SubIds : UploadFail(s)
  \/ \E s \in SubIds : InsertOk(s)
  \/ \E s \in SubIds : InsertFail(s)
  \/ TimerFire
  \/ AuthResolved(Some(AdminUid))
  \/ FetchOk
  \/ \E reg \in RowsClicked : handleDeleteClick(reg)
  \/ confirmDelete(1)
  \/ \E removed \in BOOLEAN : RemoveAnswered(1, removed)
  \/ DeleteRowOk(1)
  \/ DeleteRowFail(1)

PipelineSpec == PipelineInit /\ [][PipelineNext]_vars

\* ------------------------------------------------- every call returns at last
\* An empty store; the dashboard is at mount time and the public form has
\* been filled in, its photo dropped and read.
OpsInit ==
  /\ form = ValidPadded
  /\ errors = {}
  /\ photoFile = Some(PngDotted)
  /\ photoError = ""
  /\ isSubmitting = FALSE
  /\ isSuccess = FALSE
  /\ toast = "none"
  /\ timers = 0
  /\ preview = Some(PngDotted)
  /\ inputValue = None
  /\ readers = {}
  /\ subs = [s \in SubIds |-> IdleSub]
  /\ probe = IdleProbe
  /\ SeededStore(0)
  /\ authUsers = {AdminUid, PlainUid}
  /\ userRoles = {AdminGrant, [user_id |-> PlainUid, role |-> "user"]}
  /\ signup = IdleSignup
  /\ api = IdleApi
  /\ InitDash
  /\ InitTable
  /\ InitEdit

\* The store answers an upload, an insert, the select or an update.
UploadAnswers(s) == UploadOk(s) \/ UploadFail(s)
InsertAnswers(s) == InsertOk(s) \/ InsertFail(s)
FetchAnswers == FetchOk \/ FetchFail
UpdateAnswers(k) == UpdateOk(k) \/ UpdateFail(k)

\* One submission of the public form, the fetch of the dashboard and the
\* saves of the edit modal on the record it created.
OpsNext ==
  \/ SubmitEvent(1)
  \/ \E stamp \in 1..NameStamps : UploadStarts(1, stamp)
  \/ UploadAnswers(1)
  \/ InsertAnswers(1)
  \/ TimerFire
  \/ \E u \in Sessions : AuthResolved(u)
  \/ FetchAnswers
  \/ \E reg \in RowsClicked : onEdit(reg)
  \/ CloseEdit
  \/ \E k \in SaveIds : EditSubmitEvent(k)
  \/ \E k \in SaveIds : SaveStarts(k)
  \/ \E k \in SaveIds : UpdateAnswers(k)

\* Some call in flight is answered, with a result or with an error.
StoreAnswers ==
  \/ \E s \in SubIds : UploadAnswers(s) \/ InsertAnswers(s)
  \/ FetchAnswers
  \/ \E k \in SaveIds : UpdateAnswers(k)

\* The store does not stop answering while a call is in flight.  A call in
\* flight stays answerable until it is answered, and a behaviour holds a
\* bounded number of calls, so every call returns at last.
EveryCallReturns == WF_vars(StoreAnswers)

OpsSpec == OpsInit /\ [][OpsNext]_vars /\ EveryCallReturns

\* ------------------------------------------------------------------ claims
\* What the claims say, stated without the operators that model the code.

\* t is s without its leading and trailing whitespace.
IsTrimOf(t, s) ==
  \E lo \in 0..Len(s) :
    /\ lo + Len(t) <= Len(s)
    /\ \A i \in 1..Len(t) : t[i] = s[lo + i]
    /\ \A i \in 1..Len(s) : (i <= lo \/ i > lo + Len(t)) => s[i] \in {" ", "\t", "\n"}
    /\ Len(t) > 0 => (t[1] \notin {" ", "\t", "\n"} /\ t[Len(t)] \notin {" ", "\t", "\n"})

\* The length of s between its first and its last non-whitespace character.
TrimmedLength(s) ==
  LET inked == {i \in 1..Len(s) : s[i] \notin {" ", "\t", "\n"}}
  IN  IF inked = {} THEN 0
      ELSE (CHOOSE i \in inked : \A j \in inked : j <= i)
             - (CHOOSE i \in inked : \A j \in inked : i <= j) + 1

\* s is ten digits with nothing but whitespace before and after them.
TenDigitsInWhitespace(s) ==
  \E lo \in 1..Len(s) :
    /\ lo + 9 <= Len(s)
    /\ \A i \in 1..Len(s) :
         IF i >= lo /\ i <= lo + 9
           THEN s[i] \in {"0", "1", "2", "3", "4", "5", "6", "7", "8", "9"}
           ELSE s[i] \in {" ", "\t", "\n"}

InFlight == {s \in SubIds : subs[s].pc \in {"uploading", "inserting"}}

Succeeds(s) == subs[s].pc = "inserting" /\ subs'[s].pc = "success"

Fails(s) ==
  /\ subs[s].pc \in {"validating", "uploading", "inserting"}
  /\ subs'[s].pc \in {"invalid", "photoRejected", "uploadFailed", "insertFailed"}

\* C1 - End-to-end submission: a submission whose fields passed the schema,
\* whose photo passed validatePhoto and whose upload and insert succeeded
\* creates exactly one new registrations row; its text fields are the trimmed
\* submitted values, gender and department the submitted values, and photo_url
\* the public URL of the object this submission stored in the bucket.
C1_EndToEnd ==
  [][/\ \A s \in SubIds :
          Succeeds(s) =>
            /\ Len(rows') = Len(rows) + 1
            /\ SubSeq(rows', 1, Len(rows)) = rows
            /\ LET r == rows'[Len(rows')]
                   raw == subs[s].raw
               IN  /\ IsTrimOf(r.full_name, raw.fullName)
                   /\ IsTrimOf(r.mobile_number, raw.mobileNumber)
                   /\ IsTrimOf(r.email, raw.email)
                   /\ IsTrimOf(r.address, raw.address)
                   /\ r.gender = raw.gender
                   /\ r.department = raw.department
                   /\ r.photo_url = PublicUrl(subs[s].path)
                   /\ subs[s].path \in bucket'
                   /\ \A k \in 1..Len(rows) : rows[k].id # r.id
     /\ Len(rows') > Len(rows) => \E s \in SubIds : Succeeds(s)]_vars

\* A submission typed with surrounding whitespace has succeeded and its row
\* holds the trimmed name next to an object of the bucket.
C1_Witness ==
  /\ \E s \in SubIds : subs[s].pc = "success"
  /\ Len(rows) >= 1
  /\ rows[1].full_name = <<"A", "l">>
  /\ SubSeq(rows[1].photo_url, Len(PublicBase) + 1, Len(rows[1].photo_url)) \in bucket

\* C2 - No record without a validated form and an uploaded photo: the insert
\* is issued only by a submission whose values passed the schema, whose photo
\* passed validatePhoto and whose upload has just stored its object; a
\* submission that ends at schema validation, at the photo check or at the
\* upload creates no row, and a row appears only when an insert succeeds.
C2_NoRecordWithoutPhoto ==
  [][/\ \A s \in SubIds :
          (subs[s].pc # "inserting" /\ subs'[s].pc = "inserting") =>
            /\ subs[s].pc = "uploading"
            /\ SchemaErrors(subs[s].raw) = {}
            /\ validatePhoto(subs[s].file)
            /\ subs[s].path \notin bucket
            /\ subs[s].path \in bucket'
     /\ \A s \in SubIds :
          (Fails(s) /\ subs'[s].pc # "insertFailed") =>
            (rows' = rows /\ subs[s].pc # "inserting")
     /\ Len(rows') > Len(rows) => \E s \in SubIds : Succeeds(s)]_vars

\* One submission was aborted by an upload failure, another one created the
\* only row there is.
C2_Witness ==
  /\ \E s \in SubIds : subs[s].pc = "uploadFailed"
  /\ \E s \in SubIds : subs[s].pc = "success"
  /\ Len(rows) = 1

\* C3 - No concurrent double-submit: at most one upload/insert sequence of
\* the public form is in flight at any time.
C3_NoDoubleSubmit == Cardinality(InFlight) <= 1

\* C4 - Failure returns to editing with values retained: every failing
\* submission leaves the form in the editing state (isSuccess false,
\* isSubmitting false) with an error surfaced and the field values and the
\* held photo unchanged.
C4_FailureReturnsToEditing ==
  [][\A s \in SubIds :
       Fails(s) =>
         /\ ~isSuccess'
         /\ ~isSubmitting'
         /\ (errors' # {} \/ photoError' # "" \/ toast' = "error")
         /\ form' = form
         /\ photoFile' = photoFile]_vars

\* The state the success view reverts to.
Reverted ==
  /\ ~isSuccess
  /\ form = EmptyForm
  /\ photoFile = None
  /\ preview = None

\* C5 - Success auto-reverts: the success state is entered only by a
\* succeeding insert, and from the success state the form always eventually
\* is back in the editing state with its fields reset, no photo held and no
\* preview shown.
C5_SuccessAutoReverts ==
  /\ [][(~isSuccess /\ isSuccess') =>
          \E s \in SubIds : Succeeds(s) /\ Len(rows') = Len(rows) + 1]_vars
  /\ (isSuccess ~> Reverted)

\* A submission has succeeded and its timer has put the form back.
C5_Witness ==
  /\ \E s \in SubIds : subs[s].pc = "success"
  /\ timers = 0
  /\ Reverted

\* The acceptance rule of the claim for a probed file.
RuleAccepts(f) ==
  f.type \in {"image/jpeg", "image/jpg", "image/png"} /\ f.size <= 2097152

\* C6 - Photo acceptance rule: handleFileChange and validatePhoto both accept
\* a file iff its declared type is image/jpeg, image/jpg or image/png and its
\* size is at most 2,097,152 bytes.
C6_PhotoAcceptance ==
  (probe.kind = "photo" /\ probe.verdict # "pending") =>
    /\ probe.verdict = "accepted" <=> RuleAccepts(probe.file[1])
    /\ probe.verdict2 = "accepted" <=> RuleAccepts(probe.file[1])

\* An image/jpeg of exactly 2,097,152 bytes was accepted by both checks.
C6_Witness ==
  /\ probe.kind = "photo"
  /\ probe.file[1].type = "image/jpeg"
  /\ probe.file[1].size = 2097152
  /\ probe.verdict = "accepted"
  /\ probe.verdict2 = "accepted"

\* C7 - Photo rejection is surfaced: while the file chosen in the picker is
\* one the rules reject, an error is shown and that file is not held.
C7_RejectionSurfaced ==
  (inputValue # None /\ ~RuleAccepts(inputValue[1])) =>
    (photoError # "" /\ photoFile # inputValue)

\* C8 - Mobile number rule: the schema accepts a mobile number iff, trimmed,
\* it is exactly ten digits.
C8_MobileRule ==
  (probe.kind = "mobileNumber" /\ probe.verdict # "pending") =>
    (probe.verdict = "accepted" <=> TenDigitsInWhitespace(probe.text))

\* Ten digits typed with whitespace around them were accepted.
C8_Witness ==
  /\ probe.kind = "mobileNumber"
  /\ probe.verdict = "accepted"
  /\ Len(probe.text) > 10

\* C9 - Full name rule: the schema accepts a full name iff its trimmed length
\* is in [2,100].
C9_FullNameRule ==
  (probe.kind = "fullName" /\ probe.verdict # "pending") =>
    (probe.verdict = "accepted"
       <=> (TrimmedLength(probe.text) >= 2 /\ TrimmedLength(probe.text) <= 100))

\* A name longer than 100 characters only by its padding was accepted.
C9_Witness ==
  /\ probe.kind = "fullName"
  /\ probe.verdict = "accepted"
  /\ Len(probe.text) > 100

\* C10 - Address rule: the schema accepts an address iff its trimmed length is
\* in [10,500].
C10_AddressRule ==
  (probe.kind = "address" /\ probe.verdict # "pending") =>
    (probe.verdict = "accepted"
       <=> (TrimmedLength(probe.text) >= 10 /\ TrimmedLength(probe.text) <= 500))

\* An address of exactly ten characters between its padding was accepted.
C10_Witness ==
  /\ probe.kind = "address"
  /\ probe.verdict = "accepted"
  /\ TrimmedLength(probe.text) = 10
  /\ Len(probe.text) > 10

\* Two characters that differ at most by case.
SameLetter(a, b) ==
  a = b \/ \E k \in 1..Len(UpperCase) : {a, b} = {UpperCase[k], LowerCase[k]}

\* `part` occurs in `text` when case is ignored.
OccursIgnoringCase(part, text) ==
  \E off \in 0..(Len(text) - Len(part)) :
    \A k \in 1..Len(part) : SameLetter(text[off + k], part[k])

\* The record passes the search text and the department selection.
Selected(reg) ==
  /\ \/ OccursIgnoringCase(search, reg.full_name)
     \/ OccursIgnoringCase(search, reg.mobile_number)
     \/ OccursIgnoringCase(search, reg.email)
  /\ departmentFilter = "all" \/ reg.department = departmentFilter

SelectedPositions ==
  {i \in 1..Len(registrations) : Selected(registrations[i])}

\* The k-th smallest selected position.
KthSelected(k) ==
  CHOOSE i \in SelectedPositions :
    Cardinality({j \in SelectedPositions : j < i}) = k - 1

\* C11: the filtered view holds exactly the records whose name, phone or
\* email contains the search text (case ignored) and whose department passes
\* the selection ("all" or an exact match), in the order of the record set.
C11_FilteringConjunctive ==
  /\ Len(Filtered) = Cardinality(SelectedPositions)
  /\ \A k \in 1..Len(Filtered) : Filtered[k] = registrations[KthSelected(k)]

\* An upper-case search with a department chosen keeps some records and
\* drops others.
C11_Witness ==
  /\ search = <<"A", "N">>
  /\ departmentFilter = "Sales"
  /\ Len(Filtered) > 0
  /\ Len(Filtered) < Len(registrations)
  /\ \E i \in SelectedPositions, j \in 1..Len(registrations) :
       j < i /\ j \notin SelectedPositions

\* The least number of pages of ITEMS_PER_PAGE records that hold n records.
PagesNeeded(n) == CHOOSE m \in 0..n : m * ITEMS_PER_PAGE >= n /\ \A l \in 0..n : l * ITEMS_PER_PAGE >= n => m <= l

LastPositionOf(p, n) == IF p * ITEMS_PER_PAGE < n THEN p * ITEMS_PER_PAGE ELSE n

\* C12: n filtered records make ceil(n / 10) pages, and page p shows the
\* filtered records at positions (p-1)*10+1 .. min(p*10, n), in order.
C12_PaginationSlices ==
  LET n == Len(Filtered) IN
  /\ TotalPages = PagesNeeded(n)
  /\ \A p \in 1..PagesNeeded(n) :
       LET shown == paginatedRegistrations(registrations, search,
                                           departmentFilter, p)
           first == (p - 1) * ITEMS_PER_PAGE + 1
       IN /\ Len(shown) = LastPositionOf(p, n) - first + 1
          /\ \A k \in 1..Len(shown) : shown[k] = Filtered[first + k - 1]

\* The largest record set, unfiltered, on its third page: records 21 onwards.
C12_Witness ==
  /\ Len(Filtered) = MaxRecords
  /\ currentPage = 3
  /\ TotalPages = 3
  /\ Len(Paginated) = MaxRecords - 2 * ITEMS_PER_PAGE
  /\ Paginated[1] = Filtered[2 * ITEMS_PER_PAGE + 1]

\* C14: every change of the search text or of the department selection, and
\* every clearing of the filters, puts the table on page 1 in the same step.
C14_FilterChangeResetsPage ==
  [][(search' # search \/ departmentFilter' # departmentFilter)
       => currentPage' = 1]_vars

\* A search typed while the table showed a later page of several.
C14_Witness ==
  /\ search = <<"a", "n">>
  /\ departmentFilter = "all"
  /\ TotalPages > 1
  /\ currentPage = 1

\* C13: after any sequence of page clicks, filter changes and changes of the
\* record set, deletes included, the current page is at least 1 and, when
\* any record is listed, at most ceil(filteredCount / 10).
C13_PageIndexClamped ==
  /\ currentPage >= 1
  /\ Len(Filtered) > 0 => currentPage <= PagesNeeded(Len(Filtered))

\* The identity of the session holds the admin role.
HoldsAdminRole(u) == u # None /\ [user_id |-> u[1], role |-> "admin"] \in userRoles

\* A fetch of the record set has been issued (and may have answered).
FetchIssued == fetching > 0 \/ ~isLoading

\* C15: the dashboard never redirects to the login entry point while the
\* session is being resolved; once it is resolved it has redirected exactly
\* when there is no session or the session lacks the admin role; it renders
\* its content and issues the fetch only for a session with the admin role.
C15_AdminGate ==
  /\ authLoading => ~navigated
  /\ ~authLoading => (navigated <=> ~HoldsAdminRole(user))
  /\ TableRendered => HoldsAdminRole(user)
  /\ FetchIssued => HoldsAdminRole(user)

\* A signed-in account without the admin role: redirected, nothing fetched.
C15_Witness ==
  /\ ~authLoading
  /\ user = Some(PlainUid)
  /\ navigated
  /\ ~FetchIssued
  /\ ~TableRendered

\* The handleDelete call d takes a step.
DelStep(d, from, to) == dels[d].pc = from /\ dels'[d].pc = to

StoreAndListUnchanged ==
  rows' = rows /\ bucket' = bucket /\ registrations' = registrations

\* What a step may do to the delete workflow of the table.
TwoStepDelete ==
  /\ \A d \in DelIds :
       DelStep(d, "idle", "removing")
         => /\ deleteId # None
            /\ dels'[d].id = deleteId[1]
            /\ deleteId' = None
            /\ StoreAndListUnchanged
  /\ (deleteId = None /\ deleteId' # None)
       => (dels' = dels /\ StoreAndListUnchanged)
  /\ (deleteId # None /\ deleteId' = None /\ dels' = dels)
       => StoreAndListUnchanged
  /\ \A d \in DelIds :
       dels[d].pc = "idle" => dels'[d].pc \in {"idle", "removing"}

\* C18: a delete (storage removal, then row deletion) is started only by
\* confirming the open request for that record; requesting a delete and
\* cancelling it start nothing and leave store and in-memory set unchanged.
C18_DeleteIsTwoStep ==
  [][TwoStepDelete]_vars

\* A delete was requested and cancelled: the dialog is closed over the URL
\* of the request, no delete has started and every record is still there.
C18_Witness ==
  /\ deleteId = None
  /\ deletePhotoUrl # <<>>
  /\ \A d \in DelIds : dels[d].pc = "idle"
  /\ Len(registrations) = nextId - 1
  /\ Len(rows) = nextId - 1
  /\ Cardinality(bucket) = nextId - 1

\* C19: handleDelete first awaits the bucket removal, then issues the row
\* deletion, and only when that reports no error removes the record from
\* the in-memory set; when the row deletion reports an error the delete is
\* reported as failed and the in-memory set is unchanged, photo removed or
\* not.
C19_DeleteOrdering ==
  [][\A d \in DelIds :
       /\ dels'[d] # dels[d]
            => \/ DelStep(d, "idle", "removing") /\ StoreAndListUnchanged
               \/ DelStep(d, "removing", "deleting")
                    /\ rows' = rows /\ registrations' = registrations
               \/ DelStep(d, "deleting", "done")
                    /\ bucket' = bucket /\ adminToast' = "success"
                    /\ \A k \in 1..Len(registrations') :
                         registrations'[k].id # dels[d].id
               \/ DelStep(d, "deleting", "failed")
                    /\ StoreAndListUnchanged /\ adminToast' = "error"
       /\ Len(registrations') < Len(registrations)
            => \E e \in DelIds : DelStep(e, "deleting", "done")]_vars

\* A failed delete after the photo was removed: the record is still listed
\* and stored, its photo object is gone.
C19_Witness ==
  /\ \E d \in DelIds : dels[d].pc = "failed"
  /\ adminToast = "error"
  /\ \E k \in 1..Len(registrations) :
       /\ PathOfUrl(registrations[k].photo_url) \notin bucket
       /\ \E j \in 1..Len(rows) : rows[j].id = registrations[k].id

\* The store holds no row with this identifier.
RowMissing(id) == \A k \in 1..Len(rows) : rows[k].id # id

\* The row deletion of call d, for a row that is no longer stored, answers.
MissingRowAnswered(d) ==
  /\ dels[d].pc = "deleting"
  /\ dels'[d].pc \in {"done", "failed"}
  /\ RowMissing(dels[d].id)

\* C20 as stated: deleting an identifier whose row was already deleted
\* reports failure and leaves the in-memory record set unchanged.
C20_DeleteOfMissingRowFails ==
  [][\A d \in DelIds :
       MissingRowAnswered(d)
         => /\ dels'[d].pc = "failed"
            /\ adminToast' = "error"
            /\ registrations' = registrations]_vars

\* C20 amended: deleting an identifier whose row was already deleted leaves
\* the store's rows unchanged; the store reports no error for a delete that
\* matches no row, so unless the call itself fails the delete is reported
\* as successful and the record is dropped from the in-memory set; when the
\* call fails the in-memory set is unchanged.
C20_DeleteOfMissingRow ==
  [][\A d \in DelIds :
       MissingRowAnswered(d)
         => /\ rows' = rows
            /\ dels'[d].pc = "done"
                 => /\ adminToast' = "success"
                    /\ registrations' =
                         SelectSeq(registrations, LAMBDA r : r.id # dels[d].id)
            /\ dels'[d].pc = "failed"
                 => /\ adminToast' = "error"
                    /\ registrations' = registrations]_vars

\* More deletes were reported successful than rows were ever stored: one
\* of them found its row already deleted.
C20_Witness ==
  /\ \A d \in DelIds : dels[d].pc = "done"
  /\ adminToast = "success"
  /\ rows = <<>>
  /\ registrations = <<>>
  /\ nextId - 1 < MaxDeletes

AdminGrantsOf(uid) == {g \in userRoles : g.user_id = uid /\ g.role = "admin"}

\* C16: every admin signup that has created an identity ends with exactly
\* one role grant with role admin that references this identity.
C16_SignupGrantsAdmin ==
  (signup.pc \in {"done", "roleFailed"} /\ signup.uid \in authUsers)
    => Cardinality(AdminGrantsOf(signup.uid)) = 1

\* The statement `api` was sent in this step.
Sent(op) == api'.op = op /\ (api' # api \/ rows' # rows)

\* C17: any session, anonymous included, can insert a registration; rows
\* are returned, changed or removed only for an authenticated session whose
\* identity has an admin grant; a select, update or delete by any other
\* session returns and affects no row.
AccessControlled ==
  /\ \A session \in ClientSessions :
       (Sent("INSERT") /\ api'.session = session)
         => /\ Len(rows') = Len(rows) + 1
            /\ SubSeq(rows', 1, Len(rows)) = rows
  /\ (\E op \in {"SELECT", "UPDATE", "DELETE"} : Sent(op))
       => IF HoldsAdminRole(api'.session)
          THEN /\ api'.op = "SELECT" => api'.returned = IdsOf(rows)
               /\ api'.op = "UPDATE"
                    => api'.affected = {api'.target} \cap IdsOf(rows)
               /\ api'.op = "DELETE"
                    => /\ api'.affected = {api'.target} \cap IdsOf(rows)
                       /\ IdsOf(rows') = IdsOf(rows) \ {api'.target}
          ELSE /\ api'.returned = {}
               /\ api'.affected = {}
               /\ rows' = rows
  /\ (rows' # rows /\ Len(rows') <= Len(rows)) => HoldsAdminRole(api'.session)

C17_AccessControl == [][AccessControlled]_vars

\* An anonymous delete aimed at a stored row removed nothing.
C17_Witness ==
  /\ api.op = "DELETE"
  /\ api.session = None
  /\ api.target \in IdsOf(rows)
  /\ api.affected = {}

\* The photo object of the handleDelete call d is (still) in the bucket.
PhotoLeft(d) == dels[d].path \in bucket

\* C21: the bucket removal is best effort: whatever it reports, handleDelete
\* goes on to the row deletion, and when that succeeds with the photo object
\* still stored the row is gone, the record is dropped from the in-memory
\* set and the delete is reported as successful.
C21_PhotoRemovalBestEffort ==
  [][\A d \in DelIds :
       /\ (dels[d].pc = "removing" /\ dels'[d] # dels[d])
            => /\ dels'[d].pc = "deleting"
               /\ adminToast' = adminToast
       /\ (DelStep(d, "deleting", "done") /\ PhotoLeft(d))
            => /\ adminToast' = "success"
               /\ dels[d].id \notin IdsOf(rows')
               /\ dels[d].id \notin IdsOf(registrations')
               /\ bucket' = bucket]_vars

\* A delete reported successful whose photo object outlived its row.
C21_Witness ==
  /\ adminToast = "success"
  /\ \E d \in DelIds : dels[d].pc = "done"
  /\ \E i \in 1..(nextId - 1) :
       /\ FilePath(Jpeg500K, i) \in bucket
       /\ i \notin IdsOf(rows)
       /\ i \notin IdsOf(registrations)

\* The save k of the edit modal passes from one position to another.
SaveStep(k, from, to) == saves[k].pc = from /\ saves'[k].pc = to

\* The modal is open on the record that the save k is about.
OpenOnRecordOf(k) == EditOpen /\ editRegistration[1].id = saves[k].id

\* An edit save that fails leaves the modal as it is.
FailedSaveKeepsModal ==
  \A k \in SaveIds :
    (SaveStep(k, "updating", "failed") /\ OpenOnRecordOf(k))
      => /\ adminToast' = "error"
         /\ editRegistration' = editRegistration
         /\ editForm' = editForm
         /\ registrations' = registrations

\* C22: when the update of an edit save reports an error, the error toast
\* is shown, the edit modal stays open on the same record with the values
\* the admin entered, and the in-memory list is unchanged.
C22_FailedSaveKeepsModalOpen == [][FailedSaveKeepsModal]_vars

\* The records of a list that carry the identifier id.
RecordsOf(list, id) == SelectSeq(list, LAMBDA r : r.id = id)

\* A successful edit save leaves the in-memory copy equal to the stored row.
SavedCopyMatchesStore ==
  \A k \in SaveIds :
    SaveStep(k, "updating", "done")
      => /\ Len(RecordsOf(rows', saves[k].id)) = 1
         /\ RecordsOf(rows', saves[k].id)[1].created_at
              = RecordsOf(rows, saves[k].id)[1].created_at
         /\ RecordsOf(registrations', saves[k].id) = RecordsOf(rows', saves[k].id)

\* C23: a successful edit save changes neither the identifier nor the
\* creation timestamp of the row, and afterwards the in-memory copy of the
\* record equals the stored row in every field, updated_at included.
C23_SavedCopyMatchesStore == [][SavedCopyMatchesStore]_vars

\* The completion of a save whose modal was closed and opened on another
\* record patches its own record only and leaves that modal alone.
LateSaveLeavesOtherModal ==
  \A k \in SaveIds :
    (/\ saves[k].pc = "updating"
     /\ saves'[k].pc \in {"done", "failed"}
     /\ EditOpen
     /\ editRegistration[1].id # saves[k].id)
      => /\ editRegistration' = editRegistration
         /\ editForm' = editForm
         /\ \A i \in 1..Len(registrations) :
              registrations[i].id # saves[k].id
                => registrations'[i] = registrations[i]

\* C29: when the save of record A completes while the modal, closed and
\* opened again, shows record B, only A is patched in memory and the modal
\* on B is neither closed nor altered.
C29_LateSaveLeavesOtherModal == [][LateSaveLeavesOtherModal]_vars

\* The column list of the export, in order.
ExportColumns ==
  <<"Name", "Mobile", "Email", "Gender", "Department", "Address",
    "Registered Date">>

\* The cells the export holds for a record.
ExportCells(reg) ==
  <<reg.full_name, reg.mobile_number, reg.email, reg.gender, reg.department,
    reg.address, toLocaleDateString(reg.created_at)>>

\* The only sheet of the written workbook, and its rows below the header.
ExportedSheet == workbook[1].Sheets[1]
ExportedDataRows ==
  IF ExportedSheet = <<>> THEN <<>> ELSE Tail(ExportedSheet)

\* The store and the calls in flight to it are as at mount time.
NoStoreCall ==
  /\ api = IdleApi
  /\ fetching = 0
  /\ \A d \in DelIds : dels[d].pc = "idle"
  /\ \A k \in SaveIds : saves[k].pc = "idle"
  /\ rows = OrderedNewestFirst(registrations)

\* C24: the export holds exactly one data row per record of the full
\* in-memory list, in fetch order, whatever the search text, the department
\* filter and the page are, under the columns Name, Mobile, Email, Gender,
\* Department, Address and Registered Date; exporting calls the store never.
C24_ExportCoversFullSet ==
  workbook # None =>
    /\ Len(ExportedDataRows) = Len(registrations)
    /\ \A i \in 1..Len(registrations) :
         /\ ExportedSheet[1] = ExportColumns
         /\ ExportedDataRows[i] = ExportCells(registrations[i])
    /\ NoStoreCall

C24_Witness ==
  /\ workbook # None
  /\ Len(ExportedDataRows) > ITEMS_PER_PAGE
  /\ Len(Filtered) < Len(registrations)
  /\ Len(Filtered) > 0
  /\ currentPage > 1

\* C25: the export of an empty in-memory list is a workbook of one sheet
\* that holds the header row and no data row.
C25_EmptyExportHasHeader ==
  (workbook # None /\ registrations = <<>>) =>
    /\ Len(workbook[1].Sheets) = 1
    /\ ExportedSheet = <<ExportColumns>>

\* C28: in every state of FileUpload a shown preview is the preview of the
\* file that is currently held: none is shown while no file is held, and
\* the read of a file selected or cleared earlier never puts its image in
\* place of the held file's.
C28_PreviewIsOfHeldFile == preview # None => preview = photoFile

\* The stored object is the photo of no stored row.
Orphan(path, list) ==
  \A k \in 1..Len(list) : PathOfUrl(list[k].photo_url) # path

\* The public form removes nothing from the bucket, and the photo of a
\* submission whose insert failed is left there, referenced by no row.
FailedInsertLeavesPhoto ==
  /\ bucket \subseteq bucket'
  /\ \A s \in SubIds :
       (subs[s].pc = "inserting" /\ subs'[s].pc = "insertFailed")
         => /\ subs[s].path \in bucket'
            /\ Orphan(subs[s].path, rows')

\* C27: when uploadPhoto succeeded and the insert of the row fails, onSubmit
\* removes no object: the uploaded photo stays in the bucket and no row
\* references it; no step of the public form removes an object.
C27_NoCleanupOfOrphanPhoto == [][FailedInsertLeavesPhoto]_vars

C27_Witness ==
  /\ \E s \in SubIds : subs[s].pc = "insertFailed"
  /\ \E path \in bucket : Orphan(path, rows)
  /\ toast = "error"

\* The row a successful submission creates carries the public URL of the
\* path under which uploadPhoto stored the photo.
StoredUnderItsUrl ==
  \A s \in SubIds :
    (subs[s].pc = "inserting" /\ subs'[s].pc = "success")
      => /\ Len(subs[s].path) = 2
         /\ subs[s].path[1] = "registrations"
         /\ rows'[Len(rows')].photo_url = PublicUrl(subs[s].path)

\* The dialog holds the identifier and the URL of the record clicked; the
\* path a confirmed delete derives is the one whose public URL that is, and
\* the removal takes that object and no other.
DeletesItsOwnPhoto ==
  \A d \in DelIds :
    /\ (deleteId' # deleteId /\ deleteId' # None)
         => \E i \in 1..Len(registrations) :
              /\ registrations[i].id = deleteId'[1]
              /\ registrations[i].photo_url = deletePhotoUrl'
    /\ DelStep(d, "idle", "removing")
         => /\ dels'[d].id = deleteId[1]
            /\ PublicUrl(dels'[d].path) = deletePhotoUrl
    /\ DelStep(d, "removing", "deleting")
         => \/ bucket' = bucket
            \/ dels[d].path \in bucket /\ bucket' = bucket \ {dels[d].path}
    /\ DelStep(d, "deleting", "done")
         => /\ rows' = SelectSeq(rows, LAMBDA r : r.id # dels[d].id)
            /\ bucket' = bucket

SubmissionInFlight(s) == subs[s].pc \in {"uploading", "inserting"}
SaveInFlight(k) == saves[k].pc = "updating"
FetchInFlight == fetching > 0

\* The step that ends a submission, a save or a fetch clears its flag.
EndClearsFlag ==
  /\ \A s \in SubIds :
       (SubmissionInFlight(s) /\ ~SubmissionInFlight(s)') => ~isSubmitting'
  /\ \A k \in SaveIds : (SaveInFlight(k) /\ ~SaveInFlight(k)') => ~isSaving'
  /\ (fetching' < fetching) => ~isLoading'

\* C30: provided every external call returns at last, every started
\* submission of the public form ends and sets isSubmitting to false, every
\* started edit save ends and sets isSaving to false, and every fetch of the
\* records ends and sets isLoading to false, whether the call succeeded or
\* failed.
C30_FlagsAreCleared ==
  /\ \A s \in SubIds : SubmissionInFlight(s) ~> ~SubmissionInFlight(s)
  /\ \A k \in SaveIds : SaveInFlight(k) ~> ~SaveInFlight(k)
  /\ FetchInFlight ~> (~FetchInFlight /\ ~isLoading)
  /\ [][EndClearsFlag]_vars

C30_Witness ==
  /\ subs[1].pc = "success"
  /\ \E k \in SaveIds : saves[k].pc = "failed"
  /\ \E k \in SaveIds : saves[k].pc = "done"
  /\ ~isSubmitting /\ ~isSaving /\ ~isLoading /\ ~FetchInFlight

====
